---- MODULE Spec2Model ----
(***************************************************************************)
(* Model of the anon-chat relay: the sliding-window rate limiter           *)
(* (backend/lib/rateLimit.js), the bounded message store and the           *)
(* connection handler (ChatServer), and the message validator              *)
(* (ServerEncryption.validateMessage).                                     *)
(*                                                                         *)
(* Time is in milliseconds, as Date.now() returns it.  A Redis command is  *)
(* one atomic step of the store; an `await` is a point where other         *)
(* handlers, the clock and the store's availability may move.              *)
(***************************************************************************)
EXTENDS Integers, Sequences, FiniteSets, TLC

\* ------------------------------------------------------------------ bounds
MaxTicks == 6
MaxCalls == 3
MaxAppend == 150
MaxInbound == 2
MaxInboundFull == 1
MaxBurst == 21
MaxBroadcasts == 2
NProc == 2
MaxSockets == 4
MaxReconnectSockets == 6

ClockSteps == {250}
TickMs == CHOOSE d \in ClockSteps : TRUE
MaxRequestsSet == {1, 2}
WindowMsSet == {500, 1000, 1500}
Identifiers == {"a"}
Procs == 1..NProc

\* ------------------------------------------------------------------ state
VARIABLES
  clock,          \* Date.now()
  redisReady,     \* redisManager.isReady()
  maxRequests,    \* options.maxRequests of every call of a behaviour
  windowMs,       \* options.windowMs of every call of a behaviour
  inMemoryStore,  \* RateLimit.inMemoryStore: identifier -> list of timestamps
  rlKey,          \* the store's sorted set ratelimit:<identifier> and its expiry
  pc,             \* per execution of checkLimit: where it is suspended
  call,           \* per execution: its locals (identifier, now, currentRequests)
  calls,          \* number of checkLimit calls begun
  admits,         \* the timestamps of the calls that returned allowed = true
  last,           \* the call that returned last: its decision and how it was reached
  twin            \* SpecTwin: the decisions of both backends on one call sequence

rlVars == <<clock, redisReady, maxRequests, windowMs, inMemoryStore, rlKey, pc, call,
            calls, admits, last, twin>>

VARIABLES
  storeReady,     \* redisClient.isReady of the relay's own store client
  redisList,      \* the store's list chat:messages, head first
  messages,       \* the relay's in-process array `messages`
  impl,           \* SpecStore: whose saveMessage / getMessages is exercised
  snapshot,       \* SpecStore: the last result of getMessages
  wsState,        \* per connection: the transport's readyState
  clients,        \* ChatServer.clients: transport -> clientInfo
  listening,      \* the connections whose message / close / error handlers are attached
  connPc,         \* per connection: where handleConnection is suspended
  tasks,          \* the executions of handleMessage suspended in saveMessage
  sent,           \* every event handed to a transport, in order
  nextId,         \* number of ChatMessages created (uuidv4 never repeats)
  budget,         \* number of inbound events the message handlers may still be handed
  busOrder,       \* SpecBroadcast: the entries of ChatServer.clients in insertion order
  busThrows,      \* SpecBroadcast: the transports whose send() raises
  fnInput,        \* the argument of the function a specification applies
  fnOutput        \* its result

VARIABLES
  hook            \* the client hook useWebSocket: its state, refs, sockets and timers

storeVars == <<storeReady, redisList, messages, impl, snapshot>>
connVars == <<wsState, clients, listening, connPc, tasks, sent, nextId, budget>>
busVars == <<busOrder, busThrows>>
fnVars == <<fnInput, fnOutput>>
hookVars == <<hook>>
relayVars == <<storeVars, connVars, busVars, fnVars, hookVars>>
vars == <<rlVars, relayVars>>

Conns == {"c1", "c2"}

\* The sockets the hook may create, in the order of their creation; 0 stands for null.
Sockets == 1..(IF MaxSockets > MaxReconnectSockets THEN MaxSockets ELSE MaxReconnectSockets)
\* A socket: its readyState and, while it is closing, the code its close event will carry.
NoSocket == [readyState |-> "NONE", code |-> 0]

\* The hook after its first render, before its effects have run.
HookStart ==
  [budget |-> 0, mounted |-> FALSE, manual |-> FALSE,
   isConnected |-> FALSE, isConnecting |-> FALSE, rendered |-> FALSE,
   socks |-> [s \in Sockets |-> NoSocket], wsRef |-> 0,
   timers |-> {}, reconnectTimeoutRef |-> 0, reconnectAttempts |-> 0,
   pings |-> {}, pingIntervalRef |-> 0]

HookQuiet == hook = HookStart

\* No broadcast under way with a transport whose send() raises.
FnQuiet ==
  /\ fnInput = <<>>
  /\ fnOutput = <<>>

BusQuiet ==
  /\ busOrder = <<>>
  /\ busThrows = {}
  /\ FnQuiet
  /\ HookQuiet

\* No connection and empty stores.
StoresQuiet ==
  /\ storeReady = FALSE
  /\ redisList = <<>>
  /\ messages = <<>>
  /\ impl = "none"
  /\ snapshot = [n |-> 0, count |-> 0, msgs |-> <<>>]
  /\ wsState = [c \in Conns |-> "NONE"]
  /\ clients = [c \in {} |-> 0]
  /\ listening = {}
  /\ connPc = [c \in Conns |-> "none"]
  /\ tasks = {}
  /\ sent = <<>>
  /\ nextId = 0
  /\ budget = 0

RelayQuiet == BusQuiet /\ StoresQuiet

\* The rate limiter with no record and no call.
LimiterQuiet ==
  /\ clock = 0
  /\ redisReady = FALSE
  /\ maxRequests = 0
  /\ windowMs = 0
  /\ inMemoryStore = [k \in {} |-> <<>>]
  /\ rlKey = [i \in {} |-> 0]
  /\ pc = [p \in {} |-> 0]
  /\ call = [p \in {} |-> 0]
  /\ calls = 0
  /\ admits = <<>>
  /\ last = 0
  /\ twin = <<>>

\* ------------------------------------------------------------------ helpers
EmptyMap == [k \in {} |-> <<>>]

MapSet(f, k, v) == [x \in (DOMAIN f) \cup {k} |-> IF x = k THEN v ELSE f[x]]

\* Array.prototype.filter(timestamp => timestamp > windowStart)
FilterAfter(s, windowStart) == SelectSeq(s, LAMBDA t : t > windowStart)

\* ------------------------------------------------------------------ the shared store
\* A sorted set with its expiry; the key exists iff it has members.
NoExpiry == -1
EmptyKey == [events |-> <<>>, expireAt |-> NoExpiry]

\* The store drops a key whose expiry has passed.
Purge(k, now) == IF k.expireAt # NoExpiry /\ now >= k.expireAt THEN EmptyKey ELSE k

\* ZREMRANGEBYSCORE key lo hi: both ends inclusive; an emptied set is deleted.
zRemRangeByScore(k, lo, hi) ==
  LET kept == SelectSeq(k.events, LAMBDA s : ~(lo <= s /\ s <= hi))
  IN IF kept = <<>> THEN EmptyKey ELSE [k EXCEPT !.events = kept]

zCard(k) == Len(k.events)

\* TTL key: -2 for a missing key, -1 for a key without expiry, otherwise the
\* remaining time in whole seconds (the store rounds milliseconds to the nearest second).
ttl(k, now) ==
  IF k.events = <<>> THEN -2
  ELSE IF k.expireAt = NoExpiry THEN -1
  ELSE (k.expireAt - now + 500) \div 1000

\* ZADD key score member: the member `${now}-${Math.random()}` is new on every call.
zAdd(k, score) == [k EXCEPT !.events = Append(@, score)]

\* EXPIRE key seconds: no effect on a missing key; a non-positive time deletes the key.
expire(k, now, seconds) ==
  IF k.events = <<>> THEN k
  ELSE IF seconds <= 0 THEN EmptyKey
  ELSE [k EXCEPT !.expireAt = now + seconds * 1000]

\* ------------------------------------------------------------------ RateLimit
\* const windowSeconds = Math.floor(windowMs / 1000)
WindowSeconds(wMs) == wMs \div 1000

Decision(allowed, remaining, resetTime, totalHits) ==
  [allowed |-> allowed, remaining |-> remaining, resetTime |-> resetTime, totalHits |-> totalHits]

\* checkMemoryLimit: the new store and the decision.
checkMemoryLimit(store, identifier, now, maxReq, wMs) ==
  LET windowStart == now - wMs
      requests == IF identifier \in DOMAIN store THEN store[identifier] ELSE <<>>
      validRequests == FilterAfter(requests, windowStart)
  IN IF Len(validRequests) >= maxReq
     THEN [store |-> MapSet(store, identifier, validRequests),
           added |-> FALSE,
           result |-> Decision(FALSE, 0,
                               IF validRequests = <<>> THEN -1 ELSE validRequests[1] + wMs,
                               Len(validRequests))]
     ELSE [store |-> MapSet(store, identifier, Append(validRequests, now)),
           added |-> TRUE,
           result |-> Decision(TRUE, maxReq - (Len(validRequests) + 1), now + wMs,
                               Len(validRequests) + 1)]

\* Mutant of overLimit: the comparison off by one.
overLimitOffByOne(currentRequests, maxReq) == currentRequests > maxReq

\* if (currentRequests >= maxRequests)
overLimit(currentRequests, maxReq) == currentRequests >= maxReq

\* checkRedisLimit run without interruption against a store that answers every call.
checkRedisLimitSeq(k0, now, maxReq, windowSeconds) ==
  LET windowStart == now - windowSeconds * 1000
      k1 == zRemRangeByScore(Purge(k0, now), 0, windowStart)
      currentRequests == zCard(k1)
  IN IF overLimit(currentRequests, maxReq)
     THEN [key |-> k1,
           result |-> Decision(FALSE, 0, now + ttl(k1, now) * 1000, currentRequests)]
     ELSE [key |-> expire(zAdd(k1, now), now, windowSeconds),
           result |-> Decision(TRUE, maxReq - currentRequests - 1,
                               now + windowSeconds * 1000, currentRequests + 1)]

\* Mutant of catchRedisError: the error is thrown on to the caller.
catchRedisErrorRethrows(store, identifier, now, maxReq, windowSeconds) ==
  [store |-> store, added |-> FALSE, result |-> [raised |-> TRUE]]

\* The catch block of checkRedisLimit: fall back to the local backend.
catchRedisError(store, identifier, now, maxReq, windowSeconds) ==
  checkMemoryLimit(store, identifier, now, maxReq, windowSeconds * 1000)

\* ------------------------------------------------------------------ checkLimit, step by step
IdleCall == [id |-> "", now |-> 0, cnt |-> 0, added |-> FALSE]
NoReturn == [id |-> "", now |-> 0, backend |-> "none", failedAt |-> "none", added |-> FALSE,
             result |-> Decision(FALSE, 0, 0, 0)]

\* The bookkeeping of a return: the decision, and the admission if it is one.
Return(id, now, backend, failedAt, added, result) ==
  /\ last' = [id |-> id, now |-> now, backend |-> backend, failedAt |-> failedAt,
              added |-> added, result |-> result]
  /\ admits' = IF "allowed" \in DOMAIN result /\ result.allowed
               THEN Append(admits, [id |-> id, now |-> now])
               ELSE admits

RLInit ==
  /\ RelayQuiet
  /\ clock = 0
  /\ redisReady \in BOOLEAN
  /\ maxRequests \in MaxRequestsSet
  /\ windowMs \in WindowMsSet
  /\ inMemoryStore = EmptyMap
  /\ rlKey = [i \in Identifiers |-> EmptyKey]
  /\ pc = [p \in Procs |-> "idle"]
  /\ call = [p \in Procs |-> IdleCall]
  /\ calls = 0
  /\ admits = <<>>
  /\ last = NoReturn
  /\ twin = <<>>

\* checkLimit with the store not ready: checkMemoryLimit(identifier, maxRequests, windowMs).
CheckMemory(p) ==
  /\ pc[p] = "idle"
  /\ calls < MaxCalls
  /\ ~redisReady
  /\ calls' = calls + 1
  /\ \E id \in Identifiers :
       LET r == checkMemoryLimit(inMemoryStore, id, clock, maxRequests, windowMs)
       IN /\ inMemoryStore' = r.store
          /\ Return(id, clock, "memory", "none", r.added, r.result)
  /\ UNCHANGED <<clock, redisReady, maxRequests, windowMs, rlKey, pc, call, twin, relayVars>>

\* checkLimit with the store ready: checkRedisLimit up to its first await.
StartRedis(p) ==
  /\ pc[p] = "idle"
  /\ calls < MaxCalls
  /\ redisReady
  /\ calls' = calls + 1
  /\ \E id \in Identifiers :
       call' = [call EXCEPT ![p] = [id |-> id, now |-> clock, cnt |-> 0, added |-> FALSE]]
  /\ pc' = [pc EXCEPT ![p] = "zRem"]
  /\ UNCHANGED <<clock, redisReady, maxRequests, windowMs, inMemoryStore, rlKey,
                 admits, last, twin, relayVars>>

\* await client.zRemRangeByScore(key, 0, windowStart)
ZRem(p) ==
  /\ pc[p] = "zRem"
  /\ redisReady
  /\ LET windowStart == call[p].now - WindowSeconds(windowMs) * 1000
     IN rlKey' = [rlKey EXCEPT ![call[p].id] = zRemRangeByScore(@, 0, windowStart)]
  /\ pc' = [pc EXCEPT ![p] = "zCard"]
  /\ UNCHANGED <<clock, redisReady, maxRequests, windowMs, inMemoryStore, call,
                 calls, admits, last, twin, relayVars>>

\* const currentRequests = await client.zCard(key)
ZCard(p) ==
  /\ pc[p] = "zCard"
  /\ redisReady
  /\ call' = [call EXCEPT ![p].cnt = zCard(rlKey[call[p].id])]
  /\ pc' = [pc EXCEPT ![p] = IF overLimit(zCard(rlKey[call[p].id]), maxRequests)
                             THEN "ttl" ELSE "zAdd"]
  /\ UNCHANGED <<clock, redisReady, maxRequests, windowMs, inMemoryStore, rlKey,
                 calls, admits, last, twin, relayVars>>

\* const ttl = await client.ttl(key); return the rejection
Ttl(p) ==
  /\ pc[p] = "ttl"
  /\ redisReady
  /\ Return(call[p].id, call[p].now, "redis", "none", call[p].added,
            Decision(FALSE, 0, call[p].now + ttl(rlKey[call[p].id], clock) * 1000,
                     call[p].cnt))
  /\ pc' = [pc EXCEPT ![p] = "idle"]
  /\ call' = [call EXCEPT ![p] = IdleCall]
  /\ UNCHANGED <<clock, redisReady, maxRequests, windowMs, inMemoryStore, rlKey, calls, twin, relayVars>>

\* await client.zAdd(key, {score: now, value: ...})
ZAdd(p) ==
  /\ pc[p] = "zAdd"
  /\ redisReady
  /\ rlKey' = [rlKey EXCEPT ![call[p].id] = zAdd(@, call[p].now)]
  /\ call' = [call EXCEPT ![p].added = TRUE]
  /\ pc' = [pc EXCEPT ![p] = "expire"]
  /\ UNCHANGED <<clock, redisReady, maxRequests, windowMs, inMemoryStore,
                 calls, admits, last, twin, relayVars>>

\* await client.expire(key, windowSeconds); return the admission
Expire(p) ==
  /\ pc[p] = "expire"
  /\ redisReady
  /\ rlKey' = [rlKey EXCEPT ![call[p].id] = expire(@, clock, WindowSeconds(windowMs))]
  /\ Return(call[p].id, call[p].now, "redis", "none", call[p].added,
            Decision(TRUE, maxRequests - call[p].cnt - 1,
                     call[p].now + WindowSeconds(windowMs) * 1000, call[p].cnt + 1))
  /\ pc' = [pc EXCEPT ![p] = "idle"]
  /\ call' = [call EXCEPT ![p] = IdleCall]
  /\ UNCHANGED <<clock, redisReady, maxRequests, windowMs, inMemoryStore, calls, twin, relayVars>>

\* The pending store call throws (store unreachable, command failed): the catch
\* block answers from the local backend, which reads Date.now() again.
Fail(p) ==
  /\ pc[p] \in {"zRem", "zCard", "ttl", "zAdd", "expire"}
  /\ LET r == catchRedisError(inMemoryStore, call[p].id, clock, maxRequests,
                              WindowSeconds(windowMs))
     IN /\ inMemoryStore' = r.store
        /\ Return(call[p].id, clock, "memory", pc[p], call[p].added \/ r.added, r.result)
  /\ pc' = [pc EXCEPT ![p] = "idle"]
  /\ call' = [call EXCEPT ![p] = IdleCall]
  /\ UNCHANGED <<clock, redisReady, maxRequests, windowMs, rlKey, calls, twin, relayVars>>

\* Time passes; the store drops the keys whose expiry has passed.
Tick ==
  /\ \E d \in ClockSteps :
       /\ clock + d <= MaxTicks * TickMs
       /\ clock' = clock + d
       /\ rlKey' = [i \in Identifiers |-> Purge(rlKey[i], clock + d)]
  /\ UNCHANGED <<redisReady, maxRequests, windowMs, inMemoryStore, pc, call,
                 calls, admits, last, twin, relayVars>>

\* The store's connection comes up ('ready') or goes down ('error', 'end').
SetReady ==
  /\ redisReady' = ~redisReady
  /\ UNCHANGED <<clock, maxRequests, windowMs, inMemoryStore, rlKey, pc, call,
                 calls, admits, last, twin, relayVars>>

CheckLimitStep(p) ==
  \/ CheckMemory(p)
  \/ StartRedis(p)
  \/ ZRem(p)
  \/ ZCard(p)
  \/ Ttl(p)
  \/ ZAdd(p)
  \/ Expire(p)
  \/ Fail(p)

\* Concurrent executions of checkLimit (handlers of one process, or several processes).
NextRL ==
  \/ \E p \in Procs : CheckLimitStep(p)
  \/ Tick
  \/ SetReady

SpecRL == RLInit /\ [][NextRL]_vars

\* One caller: every call returns before the next begins.
NextRLSeq ==
  \/ CheckLimitStep(1)
  \/ Tick
  \/ SetReady

SpecRLSeq == RLInit /\ [][NextRLSeq]_vars

\* ------------------------------------------------------------------ reset
\* The prefixes checkMessageLimit and checkAdaptiveLimit put before an identifier.
MsgPrefix == <<"m", "s", "g", ":">>
AdaptivePrefix == <<"a", "d", "a", "p", "t", "i", "v", "e", ":">>

\* The characters of the names the model uses as identifiers and keys.
Chars(name) ==
  CASE name = "a" -> <<"a">>
    [] name = "b" -> <<"b">>
    [] name = "ab" -> <<"a", "b">>
    [] name = "msg:a" -> MsgPrefix \o <<"a">>
    [] name = "msg:b" -> MsgPrefix \o <<"b">>
    [] name = "adaptive:b" -> AdaptivePrefix \o <<"b">>

\* String.prototype.includes on character sequences.
IsInfix(part, whole) ==
  \E i \in 0..(Len(whole) - Len(part)) : SubSeq(whole, i + 1, i + Len(part)) = part

\* key.includes(identifier), and the pattern ratelimit:*identifier* on the part of the key
\* after 'ratelimit:'.
includes(key, identifier) == IsInfix(Chars(identifier), Chars(key))

\* reset(identifier) by a caller with no check under way.  With the store ready the keys
\* matching the identifier are deleted, unless keys() or del() throws and the catch block
\* logs it; with the store not ready the shared store is left alone.  The local records
\* matching the identifier are deleted in every case.
Reset(identifier) ==
  /\ pc[1] = "idle"
  /\ \E outcome \in (IF redisReady THEN {"deleted", "error"} ELSE {"skipped"}) :
       rlKey' = [k \in DOMAIN rlKey |->
                   IF outcome = "deleted" /\ includes(k, identifier) THEN EmptyKey
                   ELSE rlKey[k]]
  /\ inMemoryStore' = [k \in {x \in DOMAIN inMemoryStore : ~includes(x, identifier)}
                          |-> inMemoryStore[k]]
  /\ UNCHANGED <<clock, redisReady, maxRequests, windowMs, pc, call, calls, admits, last,
                 twin, relayVars>>

\* One caller checking and resetting.
NextReset ==
  \/ CheckLimitStep(1)
  \/ Tick
  \/ SetReady
  \/ \E identifier \in Identifiers : Reset(identifier)

SpecReset == RLInit /\ [][NextReset]_vars

\* reset on a limiter that holds records of several identifiers, plain and prefixed.
FrameIdentifiers == {"a", "ab", "b"}
FrameKeys == {"a", "ab", "b", "msg:a", "msg:b", "adaptive:b"}

\* The identifier a key was written for.
Owner(key) ==
  CHOOSE identifier \in FrameIdentifiers :
    Chars(key) \in {Chars(identifier), MsgPrefix \o Chars(identifier),
                    AdaptivePrefix \o Chars(identifier)}

FrameInit ==
  /\ RelayQuiet
  /\ clock = 0
  /\ redisReady \in BOOLEAN
  /\ maxRequests = 1
  /\ windowMs = 1000
  /\ \E held \in SUBSET FrameKeys : inMemoryStore = [k \in held |-> <<0>>]
  /\ \E held \in SUBSET FrameKeys :
       rlKey = [k \in FrameKeys |->
                  IF k \in held THEN [events |-> <<0>>, expireAt |-> 1000] ELSE EmptyKey]
  /\ pc = [p \in Procs |-> "idle"]
  /\ call = [p \in Procs |-> IdleCall]
  /\ calls = 0
  /\ admits = <<>>
  /\ last = NoReturn
  /\ twin = <<>>

NextFrame == \E identifier \in FrameIdentifiers : Reset(identifier)

SpecResetFrame == FrameInit /\ [][NextFrame]_vars

\* ------------------------------------------------------------------ the cleanup timer
MaxSweepTicks == 6
SweepTickMs == 100000
SweepAgeMs == 5 * 60 * 1000
SweepMaxRequestsSet == {0, 1, 2}

\* Mutant of Sweep: a list the filter has emptied is kept.
SweepKeepsEmpty ==
  /\ inMemoryStore' = [k \in DOMAIN inMemoryStore |->
                          FilterAfter(inMemoryStore[k], clock - SweepAgeMs)]
  /\ UNCHANGED <<clock, redisReady, maxRequests, windowMs, rlKey, pc, call, calls, admits,
                 last, twin, relayVars>>

\* The callback of the cleanup timer: of every list the timestamps of the last five
\* minutes are kept, and an identifier whose list is empty is deleted.
Sweep ==
  /\ inMemoryStore' =
       [k \in {x \in DOMAIN inMemoryStore :
                  FilterAfter(inMemoryStore[x], clock - SweepAgeMs) # <<>>}
          |-> FilterAfter(inMemoryStore[k], clock - SweepAgeMs)]
  /\ UNCHANGED <<clock, redisReady, maxRequests, windowMs, rlKey, pc, call, calls, admits,
                 last, twin, relayVars>>

\* Time passes, in steps that are long against the windows.
Elapse ==
  /\ clock + SweepTickMs <= MaxSweepTicks * SweepTickMs
  /\ clock' = clock + SweepTickMs
  /\ UNCHANGED <<redisReady, maxRequests, windowMs, inMemoryStore, rlKey, pc, call,
                 calls, admits, last, twin, relayVars>>

\* A limiter whose store stays not ready: every check goes to the local backend.
SweepInit ==
  /\ RelayQuiet
  /\ clock = 0
  /\ redisReady = FALSE
  /\ maxRequests \in SweepMaxRequestsSet
  /\ windowMs \in WindowMsSet
  /\ inMemoryStore = EmptyMap
  /\ rlKey = [i \in Identifiers |-> EmptyKey]
  /\ pc = [p \in Procs |-> "idle"]
  /\ call = [p \in Procs |-> IdleCall]
  /\ calls = 0
  /\ admits = <<>>
  /\ last = NoReturn
  /\ twin = <<>>

NextSweep ==
  \/ CheckMemory(1)
  \/ Elapse
  \/ Sweep

\* Time goes on, and the interval timer keeps firing.
SpecSweep == SweepInit /\ [][NextSweep]_vars /\ WF_vars(Elapse) /\ WF_vars(Sweep)

\* Windows longer than the five minutes the cleanup timer keeps.
WideWindowMsSet == {6 * 60 * 1000, 10 * 60 * 1000}

SweepWideInit ==
  /\ RelayQuiet
  /\ clock = 0
  /\ redisReady = FALSE
  /\ maxRequests \in SweepMaxRequestsSet
  /\ windowMs \in WideWindowMsSet
  /\ inMemoryStore = EmptyMap
  /\ rlKey = [i \in Identifiers |-> EmptyKey]
  /\ pc = [p \in Procs |-> "idle"]
  /\ call = [p \in Procs |-> IdleCall]
  /\ calls = 0
  /\ admits = <<>>
  /\ last = NoReturn
  /\ twin = <<>>

SpecSweepWide == SweepWideInit /\ [][NextSweep]_vars

\* ------------------------------------------------------------------ both backends, one call sequence
\* checkLimit for a caller whose calls do not overlap and a store that answers every call:
\* the shared backend gets Math.floor(windowMs / 1000), the local one windowMs.
checkLimit(ready, store, key, identifier, now, maxReq, wMs) ==
  IF ready
  THEN LET r == checkRedisLimitSeq(key, now, maxReq, WindowSeconds(wMs))
       IN [store |-> store, key |-> r.key, result |-> r.result]
  ELSE LET r == checkMemoryLimit(store, identifier, now, maxReq, wMs)
       IN [store |-> r.store, key |-> key, result |-> r.result]

\* The same call, at the same time, on a relay whose store is ready and on one whose
\* store is not.
TwinCall ==
  /\ Len(twin) < MaxCalls
  /\ \E id \in Identifiers :
       LET m == checkLimit(FALSE, inMemoryStore, rlKey[id], id, clock, maxRequests, windowMs)
           r == checkLimit(TRUE, inMemoryStore, rlKey[id], id, clock, maxRequests, windowMs)
       IN /\ inMemoryStore' = m.store
          /\ rlKey' = [rlKey EXCEPT ![id] = r.key]
          /\ twin' = Append(twin, [id |-> id, now |-> clock, mem |-> m.result, red |-> r.result])
  /\ UNCHANGED <<clock, redisReady, maxRequests, windowMs, pc, call, calls, admits, last,
                 relayVars>>

NextTwin ==
  \/ TwinCall
  \/ Tick

SpecTwin == RLInit /\ [][NextTwin]_vars

\* ------------------------------------------------------------------ checkAdaptiveLimit
MaxBase == 12
DefaultMaxRequests == 30
DefaultWindowMs == 60000

\* serverLoad in hundredths, on both sides of each threshold.
Loads == {0, 40, 41, 60, 61, 80, 81, 100}

\* const baseMaxRequests = options.maxRequests || 30 (0 stands for an option left out)
baseMaxRequests(optMaxRequests) ==
  IF optMaxRequests = 0 THEN DefaultMaxRequests ELSE optMaxRequests

\* Math.floor(baseMaxRequests * 0.3), * 0.6, * 0.8: for these bases the product of the
\* doubles rounds to the product of the decimals.
adaptiveMax(base, load) ==
  IF load > 80 THEN (base * 3) \div 10
  ELSE IF load > 60 THEN (base * 6) \div 10
  ELSE IF load > 40 THEN (base * 8) \div 10
  ELSE base

\* checkAdaptiveLimit(identifier, serverLoad, options) for an identifier without a record
\* in either backend.
checkAdaptiveLimit(ready, identifier, now, load, optMaxRequests) ==
  checkLimit(ready, EmptyMap, EmptyKey, identifier, now,
             adaptiveMax(baseMaxRequests(optMaxRequests), load), DefaultWindowMs).result

AdaptiveInit ==
  /\ LimiterQuiet
  /\ StoresQuiet
  /\ HookQuiet
  /\ busOrder = <<>>
  /\ busThrows = {}
  /\ fnInput \in [maxRequests : 0..MaxBase, serverLoad : Loads, ready : BOOLEAN]
  /\ fnOutput = <<>>

CheckAdaptive ==
  /\ fnOutput = <<>>
  /\ fnOutput' = <<"checkAdaptiveLimit",
                   checkAdaptiveLimit(fnInput.ready, "adaptive:a", 0, fnInput.serverLoad,
                                      fnInput.maxRequests)>>
  /\ UNCHANGED <<fnInput, rlVars, storeVars, connVars, busVars, hookVars>>

NextAdaptive == CheckAdaptive

SpecAdaptive == AdaptiveInit /\ [][NextAdaptive]_vars

\* ------------------------------------------------------------------ the client hook
\* useWebSocket(url) against a real socket.  A set-state call changes hook.isConnecting at
\* once; the render that commits it comes later and may come after socket events.
\* hook.rendered is the isConnecting the committed render's `connect` has captured.
maxReconnectAttempts == 5
NormalClosure == 1000
AbnormalClosure == 1006
BaseDelayMs == 1000
MaxDelayMs == 30000

\* The socket `new WebSocket(url)` makes next.
NextSocket(h) == Cardinality({s \in Sockets : h.socks[s].readyState # "NONE"}) + 1

RefIsOpen(h) == h.wsRef # 0 /\ h.socks[h.wsRef].readyState = "OPEN"

\* connect(): `isConnecting` is the value captured by the render that made this callback.
connect(h, isConnecting) ==
  IF isConnecting \/ RefIsOpen(h) THEN h
  ELSE [h EXCEPT !.isConnecting = TRUE,
                 !.socks[NextSocket(h)] = [readyState |-> "CONNECTING", code |-> 0],
                 !.wsRef = NextSocket(h)]

\* A call of connect() that makes a socket finds one left within the bound.
HasSocketFor(h, isConnecting) ==
  isConnecting \/ RefIsOpen(h) \/ NextSocket(h) <= h.budget

\* Mutant of reconnectDelay: the delay grows by one second per attempt.
reconnectDelayLinear(attempts) ==
  IF BaseDelayMs * (attempts + 1) <= MaxDelayMs THEN BaseDelayMs * (attempts + 1) ELSE MaxDelayMs

\* Math.min(1000 * Math.pow(2, reconnectAttempts.current), 30000)
reconnectDelay(attempts) ==
  IF BaseDelayMs * 2^attempts <= MaxDelayMs THEN BaseDelayMs * 2^attempts ELSE MaxDelayMs

\* scheduleReconnect(); the timeout gets the identity `id`.
scheduleReconnect(h, id) ==
  IF h.reconnectAttempts >= maxReconnectAttempts THEN h
  ELSE [h EXCEPT !.timers = @ \cup {[id |-> id, attempt |-> h.reconnectAttempts,
                                     delay |-> reconnectDelay(h.reconnectAttempts)]},
                 !.reconnectAttempts = @ + 1,
                 !.reconnectTimeoutRef = id]

\* ws.onopen of socket s: the interval it starts gets the identity s.
onopen(h, s) ==
  [h EXCEPT !.isConnected = TRUE, !.isConnecting = FALSE, !.reconnectAttempts = 0,
            !.pings = @ \cup {s}, !.pingIntervalRef = s]

\* ws.onclose of socket s with event.code = code.
onclose(h, s, code) ==
  LET closed == [h EXCEPT !.isConnected = FALSE, !.isConnecting = FALSE, !.wsRef = 0,
                          !.pings = @ \ {h.pingIntervalRef}, !.pingIntervalRef = 0]
  IN IF code # NormalClosure /\ closed.reconnectAttempts < maxReconnectAttempts
     THEN scheduleReconnect(closed, s)
     ELSE closed

\* ws.close(1000, ...): an open socket starts the closing handshake and its close event
\* will carry 1000; a socket still connecting is failed and its close event carries 1006.
close(sock) ==
  IF sock.readyState = "OPEN" THEN [readyState |-> "CLOSING", code |-> NormalClosure]
  ELSE IF sock.readyState = "CONNECTING"
  THEN [readyState |-> "CLOSING", code |-> AbnormalClosure]
  ELSE sock

\* disconnect(): the refs keep their values.
disconnect(h) ==
  [h EXCEPT !.timers = {t \in @ : t.id # h.reconnectTimeoutRef},
            !.pings = @ \ {h.pingIntervalRef},
            !.socks = IF h.wsRef = 0 THEN @ ELSE [@ EXCEPT ![h.wsRef] = close(@)],
            !.isConnected = FALSE, !.isConnecting = FALSE]

HookInit ==
  /\ hook = [HookStart EXCEPT !.budget = MaxSockets]
  /\ LimiterQuiet
  /\ StoresQuiet
  /\ busOrder = <<>>
  /\ busThrows = {}
  /\ FnQuiet

\* The same hook with no application call, for the reconnection schedule.
ReconnectInit ==
  /\ hook = [HookStart EXCEPT !.budget = MaxReconnectSockets]
  /\ LimiterQuiet
  /\ StoresQuiet
  /\ busOrder = <<>>
  /\ busThrows = {}
  /\ FnQuiet

\* The effects of the first render run: connect().
Mount ==
  /\ ~hook.mounted
  /\ hook' = connect([hook EXCEPT !.mounted = TRUE], hook.rendered)
  /\ UNCHANGED <<rlVars, storeVars, connVars, busVars, fnVars>>

\* A render commits a changed isConnecting: `connect` is a new callback, so the effect
\* [connect, disconnect] is cleaned up, disconnect(), and run again, connect().
Render ==
  /\ hook.mounted
  /\ hook.isConnecting # hook.rendered
  /\ LET committed == [hook EXCEPT !.rendered = hook.isConnecting]
         cleaned == disconnect(committed)
     IN /\ HasSocketFor(cleaned, committed.rendered)
        /\ hook' = connect(cleaned, committed.rendered)
  /\ UNCHANGED <<rlVars, storeVars, connVars, busVars, fnVars>>

\* The connection of socket s is established.
Open(s) ==
  /\ hook.socks[s].readyState = "CONNECTING"
  /\ hook' = onopen([hook EXCEPT !.socks[s].readyState = "OPEN"], s)
  /\ UNCHANGED <<rlVars, storeVars, connVars, busVars, fnVars>>

\* The transport of socket s is lost: onerror, then onclose with 1006.
TransportLost(s) ==
  /\ hook.socks[s].readyState \in {"CONNECTING", "OPEN"}
  /\ hook' = onclose([hook EXCEPT !.socks[s].readyState = "CLOSED"], s, AbnormalClosure)
  /\ UNCHANGED <<rlVars, storeVars, connVars, busVars, fnVars>>

\* The close event of a socket that close() was called on.
CloseEvent(s) ==
  /\ hook.socks[s].readyState = "CLOSING"
  /\ hook' = onclose([hook EXCEPT !.socks[s] = [readyState |-> "CLOSED", code |-> 0]],
                      s, hook.socks[s].code)
  /\ UNCHANGED <<rlVars, storeVars, connVars, busVars, fnVars>>

\* A reconnect timeout fires: connect() of the render that made the socket whose close
\* set the timeout, and that connect had captured isConnecting = false.
TimerFires(t) ==
  /\ t \in hook.timers
  /\ LET fired == [hook EXCEPT !.timers = @ \ {t}]
     IN /\ HasSocketFor(fired, FALSE)
        /\ hook' = connect(fired, FALSE)
  /\ UNCHANGED <<rlVars, storeVars, connVars, busVars, fnVars>>

\* The application calls the disconnect() the hook returned.
UserDisconnect ==
  /\ hook.mounted
  /\ ~hook.manual
  /\ hook' = disconnect([hook EXCEPT !.manual = TRUE])
  /\ UNCHANGED <<rlVars, storeVars, connVars, busVars, fnVars>>

\* The application calls the connect() the hook returned by its latest render.
UserConnect ==
  /\ hook.manual
  /\ LET asked == [hook EXCEPT !.manual = FALSE]
     IN /\ HasSocketFor(asked, hook.rendered)
        /\ hook' = connect(asked, hook.rendered)
  /\ UNCHANGED <<rlVars, storeVars, connVars, busVars, fnVars>>

NextHook ==
  \/ Mount
  \/ Render
  \/ \E s \in Sockets : Open(s)
  \/ \E s \in Sockets : TransportLost(s)
  \/ \E s \in Sockets : CloseEvent(s)
  \/ \E t \in hook.timers : TimerFires(t)
  \/ UserDisconnect
  \/ UserConnect

SpecHook == HookInit /\ [][NextHook]_vars

NextReconnect ==
  \/ Mount
  \/ Render
  \/ \E s \in Sockets : Open(s)
  \/ \E s \in Sockets : TransportLost(s)
  \/ \E s \in Sockets : CloseEvent(s)
  \/ \E t \in hook.timers : TimerFires(t)

SpecReconnect == ReconnectInit /\ [][NextReconnect]_vars


\* ------------------------------------------------------------------ claims: rate limiter
Backends == {"mem", "red"}

AdmitsIn(id, from, to) ==
  Cardinality({i \in 1..Len(admits) :
                 admits[i].id = id /\ from < admits[i].now /\ admits[i].now <= to})

\* C2: for every identifier, the calls that returned allowed = true with a timestamp in
\* any trailing interval of length windowMs never number more than maxRequests.
C2_AdmissionsWithinWindow ==
  \A id \in Identifiers : \A i \in 1..Len(admits) :
    AdmitsIn(id, admits[i].now - windowMs, admits[i].now) <= maxRequests

\* C3: of the checks against a fresh identifier made within one window, the first
\* maxRequests are admitted and the next one is rejected with remaining = 0, on either backend.
C3_FirstMAdmittedNextRejected ==
  \A b \in Backends : \A k \in 1..Len(twin) :
    (k <= maxRequests + 1 /\ twin[k].now - twin[1].now < windowMs)
      => IF k <= maxRequests
         THEN twin[k][b].allowed
         ELSE ~twin[k][b].allowed /\ twin[k][b].remaining = 0

\* C3 on the local backend alone.
C3_MemoryOnly ==
  \A k \in 1..Len(twin) :
    (k <= maxRequests + 1 /\ twin[k].now - twin[1].now < windowMs)
      => IF k <= maxRequests
         THEN twin[k].mem.allowed
         ELSE ~twin[k].mem.allowed /\ twin[k].mem.remaining = 0

\* C4: after a rejection that reported resetTime, the next check for the identifier, made
\* at a clock value >= resetTime, is admitted, on either backend.
C4_AdmittedAfterReset ==
  \A b \in Backends : \A k \in 1..(Len(twin) - 1) :
    (~twin[k][b].allowed /\ twin[k + 1].now >= twin[k][b].resetTime)
      => twin[k + 1][b].allowed

\* C4 on the local backend alone.
C4_MemoryOnly ==
  \A k \in 1..(Len(twin) - 1) :
    (~twin[k].mem.allowed /\ twin[k + 1].now >= twin[k].mem.resetTime)
      => twin[k + 1].mem.allowed

\* C5: a call that returns allowed = false has added no event to the identifier's record.
C5_RejectionAddsNoEvent ==
  (last.backend # "none" /\ ~last.result.allowed) => ~last.added

\* C6: on the same sequence of calls both backends return the same allowed, remaining
\* and totalHits.
C6_BackendsAgree ==
  \A k \in 1..Len(twin) :
    /\ twin[k].mem.allowed = twin[k].red.allowed
    /\ twin[k].mem.remaining = twin[k].red.remaining
    /\ twin[k].mem.totalHits = twin[k].red.totalHits

\* C7: checkLimit never raises: whatever store call fails, the call returns a decision
\* with allowed, remaining, resetTime and totalHits, taken from the local backend.
C7_FallbackReturnsDecision ==
  last.backend # "none" =>
    /\ DOMAIN last.result = {"allowed", "remaining", "resetTime", "totalHits"}
    /\ last.result.allowed \in BOOLEAN
    /\ last.result.remaining \in 0..maxRequests
    /\ last.failedAt # "none" => last.backend = "memory"

C7_Witness ==
  /\ last.failedAt = "expire"
  /\ last.backend = "memory"
  /\ last.result.allowed

\* The events of the shared record that lie within the window ending now.
InWindowEvents(id) ==
  Cardinality({i \in 1..Len(rlKey[id].events) :
                 rlKey[id].events[i] > clock - WindowSeconds(windowMs) * 1000})

\* C8: the shared backend's count and add are separate steps, so interleaved executions
\* over-admit; each execution adds at most one event on the count it read, so the events
\* within one window exceed maxRequests by less than the number of executions.
C8_OverAdmissionBounded ==
  \A id \in Identifiers : InWindowEvents(id) <= maxRequests + NProc - 1

C8_Witness ==
  \E p, q \in Procs :
    /\ p # q
    /\ pc[p] = "expire" /\ pc[q] = "expire"
    /\ call[p].id = call[q].id
    /\ call[p].cnt = maxRequests - 1 /\ call[q].cnt = maxRequests - 1
    /\ InWindowEvents(call[p].id) > maxRequests

\* ------------------------------------------------------------------ the message store
TrimStop == 99
MemoryCapacity == 100
ManagerMaxMessages == 100
ManagerDefaultCount == 50

Min(a, b) == IF a <= b THEN a ELSE b
Max(a, b) == IF a >= b THEN a ELSE b

\* Array.prototype.reverse()
Reverse(s) == [i \in 1..Len(s) |-> s[Len(s) + 1 - i]]

\* JSON.stringify / JSON.parse of a ChatMessage: the text of an object, and the object of
\* a text.
stringify(m) == [json |-> m]
parse(str) == str.json

\* Mutant of lPush: the value becomes the tail.
rPush(list, v) == list \o <<v>>

\* LPUSH key value: the value becomes the head.
lPush(list, v) == <<v>> \o list

\* An index of LRANGE / LTRIM: zero-based, negative counts from the end.
ListIndex(list, i) == IF i < 0 THEN Max(Len(list) + i, 0) ELSE i

\* LRANGE key start stop: both ends inclusive; out-of-range ends are clipped.
lRange(list, start, stop) ==
  SubSeq(list, ListIndex(list, start) + 1, Min(ListIndex(list, stop) + 1, Len(list)))

\* LTRIM key start stop: keep that range only.
lTrim(list, start, stop) == lRange(list, start, stop)

\* messages.push(message); if (messages.length > 100) messages.shift();
pushAndShift(arr, m) ==
  LET pushed == Append(arr, m)
  IN IF Len(pushed) > MemoryCapacity THEN Tail(pushed) ELSE pushed

\* Mutant of parseAndReverse: the list is returned in storage order.
parseNoReverse(msgs) == [i \in 1..Len(msgs) |-> parse(msgs[i])]

\* msgs.map(msg => JSON.parse(msg)).reverse()
parseAndReverse(msgs) == Reverse([i \in 1..Len(msgs) |-> parse(msgs[i])])

\* ChatServer.saveMessage against a store that answers every call, run without interruption.
saveMessageSeq(ready, list, arr, m) ==
  IF ready
  THEN [list |-> lTrim(lPush(list, stringify(m)), 0, TrimStop), arr |-> arr]
  ELSE [list |-> list, arr |-> pushAndShift(arr, m)]

\* ChatServer.getMessages against a store that answers every call.
getMessagesSeq(ready, list, arr) ==
  IF ready THEN parseAndReverse(lRange(list, 0, -1)) ELSE arr

\* RedisManager.saveMessage(message, maxMessages); the list's 24 h expiry is not modelled.
managerSaveMessage(ready, list, m, maxMessages) ==
  IF ~ready THEN [list |-> list, ok |-> FALSE]
  ELSE [list |-> lTrim(lPush(list, stringify(m)), 0, maxMessages - 1), ok |-> TRUE]

\* RedisManager.getMessages(count)
managerGetMessages(ready, list, count) ==
  IF ~ready THEN <<>> ELSE parseAndReverse(lRange(list, 0, count - 1))

\* ------------------------------------------------------------------ the store, one appender
\* The n-th of the distinct messages appended in order.
StoreMsg(n) == [id |-> n, content |-> <<"m">>, userId |-> "Ghost0001", color |-> "#FF6B6B",
                encrypted |-> FALSE]

StoreInit ==
  /\ LimiterQuiet
  /\ BusQuiet
  /\ impl \in {"server", "manager"}
  /\ storeReady \in BOOLEAN
  /\ impl = "manager" => storeReady
  /\ redisList = <<>>
  /\ messages = <<>>
  /\ snapshot = [n |-> 0, count |-> 0, msgs |-> <<>>]
  /\ wsState = [c \in Conns |-> "NONE"]
  /\ clients = [c \in {} |-> 0]
  /\ listening = {}
  /\ connPc = [c \in Conns |-> "none"]
  /\ tasks = {}
  /\ sent = <<>>
  /\ nextId = 0
  /\ budget = 0

\* saveMessage of the next message, returned before anything else happens.
StoreAppend ==
  /\ nextId < MaxAppend
  /\ nextId' = nextId + 1
  /\ IF impl = "server"
     THEN LET r == saveMessageSeq(storeReady, redisList, messages, StoreMsg(nextId + 1))
          IN redisList' = r.list /\ messages' = r.arr
     ELSE LET r == managerSaveMessage(storeReady, redisList, StoreMsg(nextId + 1),
                                      ManagerMaxMessages)
          IN redisList' = r.list /\ messages' = messages
  /\ UNCHANGED <<storeReady, impl, snapshot, wsState, clients, listening, connPc, tasks, sent,
                 budget, rlVars, busVars, fnVars, hookVars>>

\* getMessages(): the relay reads the whole list, the manager the newest `count` entries.
StoreSnapshot ==
  /\ nextId > 0
  /\ \E count \in IF impl = "server" THEN {MemoryCapacity}
                  ELSE {ManagerDefaultCount, ManagerMaxMessages} :
       snapshot' = [n |-> nextId, count |-> count,
                    msgs |-> IF impl = "server"
                             THEN getMessagesSeq(storeReady, redisList, messages)
                             ELSE managerGetMessages(storeReady, redisList, count)]
  /\ UNCHANGED <<storeReady, redisList, messages, impl, connVars, rlVars, busVars, fnVars, hookVars>>

NextStore ==
  \/ StoreAppend
  \/ StoreSnapshot

SpecStore == StoreInit /\ [][NextStore]_vars

Str(chars) == [kind |-> "string", chars |-> chars]
Undefined == [kind |-> "undefined", chars |-> <<>>]
Number42 == [kind |-> "number", chars |-> <<>>]

IsSpace(ch) == ch \in {" ", "\n", "\t"}

\* The least index of a non-empty set of indices.
First(indices) == CHOOSE k \in indices : \A j \in indices : k <= j

\* The number of leading white-space characters of str.
LeadingSpaces(str) ==
  LET stops == {k \in 1..Len(str) : ~IsSpace(str[k])}
  IN IF stops = {} THEN Len(str) ELSE First(stops) - 1

\* String.prototype.trimStart(), trimEnd()
trimStart(str) == SubSeq(str, LeadingSpaces(str) + 1, Len(str))

trimEnd(str) == SubSeq(str, 1, Len(str) - LeadingSpaces(Reverse(str)))

\* String.prototype.trim()
trim(str) == trimEnd(trimStart(str))

\* Mutant of substring0: nothing is cut off.
substring0Whole(str, n) == str

\* String.prototype.substring(0, n)
substring0(str, n) == SubSeq(str, 1, Min(Len(str), n))

\* ------------------------------------------------------------------ ServerEncryption
LowerOf ==
  [A |-> "a", B |-> "b", C |-> "c", D |-> "d", E |-> "e", F |-> "f", G |-> "g", H |-> "h",
   I |-> "i", J |-> "j", K |-> "k", L |-> "l", M |-> "m", N |-> "n", O |-> "o", P |-> "p",
   Q |-> "q", R |-> "r", S |-> "s", T |-> "t", U |-> "u", V |-> "v", W |-> "w", X |-> "x",
   Y |-> "y", Z |-> "z"]

\* The /i flag: letters compare in lower case.
Lower(ch) == IF ch \in DOMAIN LowerOf THEN LowerOf[ch] ELSE ch

WordChars ==
  {LowerOf[u] : u \in DOMAIN LowerOf}
    \cup {"0", "1", "2", "3", "4", "5", "6", "7", "8", "9", "_"}

\* \w
IsWord(ch) == Lower(ch) \in WordChars

\* The literal `lit` (given in lower case) stands at index i of str, case ignored.
StartsWithCI(str, i, lit) ==
  /\ i + Len(lit) - 1 <= Len(str)
  /\ \A k \in 1..Len(lit) : Lower(str[i + k - 1]) = lit[k]

InClass(kind, ch) ==
  \/ kind = "word" /\ IsWord(ch)
  \/ kind = "space" /\ IsSpace(ch)
  \/ kind = "notquote" /\ ch \notin {"\"", "'"}
  \/ kind = "notgt" /\ ch # ">"

\* The number of consecutive characters from index i on that are in the class `kind`.
Run(kind, str, i) ==
  LET stops == {k \in i..Len(str) : ~InClass(kind, str[k])}
  IN IF stops = {} THEN Max(Len(str) - i + 1, 0) ELSE First(stops) - i

\* The first index >= i at which `lit` stands, or 0.
Find(str, i, lit) ==
  LET hits == {k \in i..Len(str) : StartsWithCI(str, k, lit)}
  IN IF hits = {} THEN 0 ELSE First(hits)

ScriptOpen == <<"<", "s", "c", "r", "i", "p", "t">>
ScriptClose == <<"<", "/", "s", "c", "r", "i", "p", "t", ">">>
JavascriptColon == <<"j", "a", "v", "a", "s", "c", "r", "i", "p", "t", ":">>

\* /<script\b[^<]*(?:(?!<\/script>)<[^<]*)*<\/script>/gi at index i: the length of the
\* match, 0 if there is none.  The match runs to the first </script> after <script.
scriptMatch(str, i) ==
  IF /\ StartsWithCI(str, i, ScriptOpen)
     /\ i + 7 <= Len(str)
     /\ ~IsWord(str[i + 7])
     /\ Find(str, i + 7, ScriptClose) # 0
  THEN Find(str, i + 7, ScriptClose) + Len(ScriptClose) - i
  ELSE 0

\* /<[^>]*>?/gm at index i
tagMatch(str, i) ==
  IF str[i] # "<" THEN 0
  ELSE LET n == Run("notgt", str, i + 1)
       IN IF i + 1 + n <= Len(str) THEN n + 2 ELSE n + 1

\* /javascript:/gi at index i
jsMatch(str, i) == IF StartsWithCI(str, i, JavascriptColon) THEN Len(JavascriptColon) ELSE 0

\* /on\w+\s*=\s*["'][^"']*["']|on\w+\s*=\s*\w+/gi at index i
handlerMatch(str, i) ==
  IF ~StartsWithCI(str, i, <<"o", "n">>) THEN 0
  ELSE LET w == Run("word", str, i + 2)
           eq == i + 2 + w + Run("space", str, i + 2 + w)
           val == eq + 1 + Run("space", str, eq + 1)
       IN IF w = 0 \/ eq > Len(str) \/ str[eq] # "=" THEN 0
          ELSE IF val <= Len(str) /\ str[val] \in {"\"", "'"}
          THEN LET q == val + 1 + Run("notquote", str, val + 1)
               IN IF q <= Len(str) THEN q + 1 - i ELSE 0
          ELSE IF Run("word", str, val) > 0 THEN val + Run("word", str, val) - i
          ELSE 0

MatchLen(pattern, str, i) ==
  CASE pattern = "script" -> scriptMatch(str, i)
    [] pattern = "tag" -> tagMatch(str, i)
    [] pattern = "javascript" -> jsMatch(str, i)
    [] pattern = "handler" -> handlerMatch(str, i)

\* String.prototype.replace(pattern, '') with the /g flag, from index i on: the text up to
\* the leftmost match is kept, the match dropped, and the scan goes on behind it.
RECURSIVE removeAll(_, _, _)
removeAll(pattern, str, i) ==
  LET hits == {k \in i..Len(str) : MatchLen(pattern, str, k) > 0}
  IN IF hits = {} THEN SubSeq(str, i, Len(str))
     ELSE SubSeq(str, i, First(hits) - 1)
            \o removeAll(pattern, str, First(hits) + MatchLen(pattern, str, First(hits)))

SanitizeLimit == 1000

\* sanitizeInput(input): the characters of the result.
sanitizeInput(input) ==
  IF input.kind # "string" THEN <<>>
  ELSE removeAll("handler",
         removeAll("javascript",
           removeAll("tag",
             removeAll("script", substring0(trim(input.chars), SanitizeLimit), 1), 1), 1), 1)

ValidateLimit == 1000

Invalid(error) == [valid |-> FALSE, error |-> error, sanitized |-> <<>>]

\* Mutant of validateMessage: the length check one character early.
validateMessageOffByOne(message) ==
  IF message.content.kind # "string" \/ message.content.chars = <<>>
  THEN Invalid("Message content is required")
  ELSE IF Len(message.content.chars) >= ValidateLimit
  THEN Invalid("Message content length invalid")
  ELSE IF message.type = ""
  THEN Invalid("Message type is required")
  ELSE IF sanitizeInput(message.content) = <<>>
  THEN Invalid("Message content is empty after sanitization")
  ELSE [valid |-> TRUE, error |-> "", sanitized |-> sanitizeInput(message.content)]

\* validateMessage(message) for a message that is an object.
validateMessage(message) ==
  IF message.content.kind # "string" \/ message.content.chars = <<>>
  THEN Invalid("Message content is required")
  ELSE IF Len(message.content.chars) > ValidateLimit
  THEN Invalid("Message content length invalid")
  ELSE IF message.type = ""
  THEN Invalid("Message type is required")
  ELSE IF sanitizeInput(message.content) = <<>>
  THEN Invalid("Message content is empty after sanitization")
  ELSE [valid |-> TRUE, error |-> "", sanitized |-> sanitizeInput(message.content)]

\* ------------------------------------------------------------------ the validator alone
\* The functions of ServerEncryption applied to one argument: fnInput is the message, and
\* fnOutput is empty until a function has been applied, then <<function, result>>.
MaxShort == 3

ShortAlphabet == {"a", " ", "<", ">"}

Fill(n, ch) == [i \in 1..n |-> ch]

ShortStrings == UNION {[1..n -> ShortAlphabet] : n \in 0..MaxShort}

\* Contents at the limits of validateMessage and sanitizeInput.
LongStrings ==
  { Fill(ValidateLimit - 1, "a"), Fill(ValidateLimit, "a"), Fill(ValidateLimit + 1, "a"),
    Fill(ValidateLimit, " "), Fill(ValidateLimit + 1, " "),
    <<"<">> \o Fill(ValidateLimit - 1, "a"),
    Fill(ValidateLimit - 1, "a") \o <<" ", "a">>,
    <<" ">> \o Fill(ValidateLimit, "a"),
    Fill(ValidateLimit - 2, "a") \o <<"<", "b", ">">> }

\* Contents carrying script blocks, javascript: URIs and inline event handlers.
MarkupStrings ==
  { <<"<", "s", "c", "r", "i", "p", "t", ">", "x", "<", "/", "s", "c", "r", "i", "p", "t", ">">>,
    <<"<", "S", "C", "R", "I", "P", "T", ">", "<", "/", "s", "c", "r", "i", "p", "t", ">", "a">>,
    <<"j", "a", "v", "a", "s", "c", "r", "i", "p", "t", ":", "a">>,
    <<"j", "a", "v", "a", "s", "c", "r", "i", "p", "t", ":">>,
    <<"j", "a", "j", "a", "v", "a", "s", "c", "r", "i", "p", "t", ":",
      "v", "a", "s", "c", "r", "i", "p", "t", ":">>,
    <<"j", "a", "v", "a", "<", "b", ">", "s", "c", "r", "i", "p", "t", ":">>,
    <<"o", "n", "x", "=", "1">>,
    <<"a", " ", "o", "n", "x", "=", "1">>,
    <<"o", "n", "x", " ", "=", " ", "'", "a", "'", "b">>,
    <<"o", "j", "a", "v", "a", "s", "c", "r", "i", "p", "t", ":", "n", "x", "=", "1">>,
    <<"<", "b", ">", " ", "a">>,
    <<"a", " ", "<", "b", ">">> }

ValidatorTypes == {"message", ""}

ValidatorInputs ==
  { [type |-> ty, content |-> Str(chars), encrypted |-> FALSE] :
      ty \in ValidatorTypes, chars \in ShortStrings \cup LongStrings \cup MarkupStrings }
    \cup { [type |-> "message", content |-> x, encrypted |-> FALSE] : x \in {Undefined, Number42} }

ValidatorInit ==
  /\ LimiterQuiet
  /\ StoresQuiet
  /\ HookQuiet
  /\ busOrder = <<>>
  /\ busThrows = {}
  /\ fnInput \in ValidatorInputs
  /\ fnOutput = <<>>

\* encryption.validateMessage(message)
Validate ==
  /\ fnOutput = <<>>
  /\ fnOutput' = <<"validateMessage", validateMessage(fnInput)>>
  /\ UNCHANGED <<fnInput, rlVars, storeVars, connVars, busVars, hookVars>>

\* encryption.sanitizeInput(input)
Sanitize ==
  /\ fnOutput = <<>>
  /\ fnOutput' = <<"sanitizeInput", sanitizeInput(fnInput.content)>>
  /\ UNCHANGED <<fnInput, rlVars, storeVars, connVars, busVars, hookVars>>

NextValidator == Validate \/ Sanitize

SpecValidator == ValidatorInit /\ [][NextValidator]_vars

\* ------------------------------------------------------------------ the relay
MaxContentLength == 1000

AnonIds == {"Ghost0001"}
Colors == {"#FF6B6B"}

RelayContents ==
  { Str(<<"h", "i">>), Str(<<"<", "b", ">">>), Number42 }

\* A payload JSON.parse throws on.
Unparseable == [type |-> "unparseable", content |-> Undefined, encrypted |-> FALSE]

InboundEvents ==
  { [type |-> "message", content |-> x, encrypted |-> FALSE] : x \in RelayContents }
    \cup { [type |-> "ping", content |-> Undefined, encrypted |-> FALSE], Unparseable }

NoRaw == [type |-> "none", content |-> Undefined, encrypted |-> FALSE]

\* Mutant of MapDel: removal by position, as splice(indexOf(k), 1) does it: an absent key
\* has position -1 and some other entry goes.
MapDelByPosition(f, k) ==
  IF k \in DOMAIN f \/ DOMAIN f = {}
  THEN [x \in (DOMAIN f) \ {k} |-> f[x]]
  ELSE [x \in (DOMAIN f) \ {CHOOSE y \in DOMAIN f : TRUE} |-> f[x]]

MapDel(f, k) == [x \in (DOMAIN f) \ {k} |-> f[x]]

\* The ChatMessages the stores hold when the relay starts, n earlier appends having reached
\* each of them: the list newest first, the array oldest first.
PrefilledList(n) == [i \in 1..n |-> stringify(StoreMsg(n + 1 - i))]
PrefilledArray(n) == [i \in 1..n |-> StoreMsg(i)]

\* Every event handed to ws.send: its type, its recipients and its payload; for a
\* newMessage also the connection and the inbound message it comes from.
Event(type, to, data, from, raw) ==
  [type |-> type, to |-> to, data |-> data, from |-> from, raw |-> raw]

\* broadcast(message): every registered connection whose transport is open.
Recipients(reg, ws) == {c \in DOMAIN reg : ws[c] = "OPEN"}

UserCount(reg, ws) ==
  Event("userCount", Recipients(reg, ws), [count |-> Cardinality(DOMAIN reg)], "server", NoRaw)

NewMessageExcludingSender(t, reg, ws) ==
  Event("newMessage", Recipients(reg, ws) \ {t.conn}, [message |-> t.chat], t.conn, t.raw)

NewMessage(t, reg, ws) ==
  Event("newMessage", Recipients(reg, ws), [message |-> t.chat], t.conn, t.raw)

\* The relay after construction, its stores holding the last n ChatMessages.
RelayStart(n, events) ==
  /\ LimiterQuiet
  /\ BusQuiet
  /\ storeReady \in BOOLEAN
  /\ redisList = PrefilledList(n)
  /\ messages = PrefilledArray(n)
  /\ nextId = n
  /\ impl = "server"
  /\ snapshot = [n |-> 0, count |-> 0, msgs |-> <<>>]
  /\ wsState = [c \in Conns |-> "NONE"]
  /\ clients = [c \in {} |-> 0]
  /\ listening = {}
  /\ connPc = [c \in Conns |-> "none"]
  /\ tasks = {}
  /\ sent = <<>>
  /\ budget = events

\* A relay that starts with empty stores.
RelayInit == RelayStart(0, MaxInbound)

\* A relay that starts with its stores at capacity.
RelayFullInit == RelayStart(MemoryCapacity, MaxInboundFull)

\* Mutant of FinishConnection: the presence count is broadcast before the init event.
FinishConnectionCountFirst(c, recentMessages) ==
  /\ sent' = Append(sent, UserCount(clients, wsState))
             \o (IF wsState[c] = "OPEN"
                 THEN <<Event("init", {c},
                              [userId |-> clients[c].id, color |-> clients[c].color,
                               messages |-> recentMessages], "server", NoRaw)>>
                 ELSE <<>>)
  /\ listening' = listening \cup {c}
  /\ connPc' = [connPc EXCEPT ![c] = "done"]

\* handleConnection after `await this.getMessages()`: the init event, the userCount
\* broadcast, and the handlers.
FinishConnection(c, recentMessages) ==
  /\ sent' = (IF wsState[c] = "OPEN"
               THEN Append(sent, Event("init", {c},
                                       [userId |-> clients[c].id, color |-> clients[c].color,
                                        messages |-> recentMessages], "server", NoRaw))
               ELSE sent)
             \o <<UserCount(clients, wsState)>>
  /\ listening' = listening \cup {c}
  /\ connPc' = [connPc EXCEPT ![c] = "done"]

\* A transport is accepted: handleConnection up to `await this.getMessages()`; with the
\* store not ready getMessages returns `messages` and nothing can come in between.
Connect(c) ==
  /\ wsState[c] = "NONE"
  /\ wsState' = [wsState EXCEPT ![c] = "OPEN"]
  /\ \E id \in AnonIds, color \in Colors :
       clients' = MapSet(clients, c, [id |-> id, color |-> color, joinedAt |-> nextId])
  /\ IF storeReady
     THEN /\ connPc' = [connPc EXCEPT ![c] = "lRange"]
          /\ UNCHANGED <<sent, listening>>
     ELSE /\ sent' = Append(sent, Event("init", {c},
                                        [userId |-> clients'[c].id, color |-> clients'[c].color,
                                         messages |-> messages], "server", NoRaw))
                     \o <<UserCount(clients', wsState')>>
          /\ listening' = listening \cup {c}
          /\ connPc' = [connPc EXCEPT ![c] = "done"]
  /\ UNCHANGED <<storeVars, tasks, nextId, budget, rlVars, busVars, fnVars, hookVars>>

\* await redisClient.lRange('chat:messages', 0, -1) answers.
ConnLRange(c) ==
  /\ connPc[c] = "lRange"
  /\ storeReady
  /\ FinishConnection(c, parseAndReverse(lRange(redisList, 0, -1)))
  /\ UNCHANGED <<storeVars, wsState, clients, tasks, nextId, budget, rlVars, busVars, fnVars, hookVars>>

\* await redisClient.lRange throws: getMessages returns `messages`.
ConnLRangeFails(c) ==
  /\ connPc[c] = "lRange"
  /\ FinishConnection(c, messages)
  /\ UNCHANGED <<storeVars, wsState, clients, tasks, nextId, budget, rlVars, busVars, fnVars, hookVars>>

\* Mutant of MessageHandlerCatch: the failure is announced to every connection.
MessageHandlerCatchBroadcast ==
  /\ sent' = Append(sent, Event("error", Recipients(clients, wsState), [count |-> 0],
                                "server", NoRaw))
  /\ UNCHANGED <<messages, tasks, nextId>>

\* The catch of the 'message' handler: JSON.parse or handleMessage threw, the error is
\* logged.
MessageHandlerCatch == UNCHANGED <<messages, sent, tasks, nextId>>

\* handleMessage, case 'message', up to `await this.saveMessage(chatMessage)`.
HandleChat(c, msg) ==
  IF msg.content.kind = "string" /\ msg.content.chars # <<>> /\ trim(msg.content.chars) # <<>>
  THEN LET chatMessage ==
             [id |-> nextId + 1,
              content |-> substring0(trim(msg.content.chars), MaxContentLength),
              userId |-> clients[c].id, color |-> clients[c].color,
              encrypted |-> msg.encrypted]
           t == [conn |-> c, chat |-> chatMessage, raw |-> msg, pc |-> "lPush"]
       IN /\ nextId' = nextId + 1
          /\ IF storeReady
             THEN /\ tasks' = tasks \cup {t}
                  /\ UNCHANGED <<messages, sent>>
             ELSE /\ messages' = pushAndShift(messages, chatMessage)
                  /\ sent' = Append(sent, NewMessage(t, clients, wsState))
                  /\ UNCHANGED tasks
  ELSE IF msg.content.kind = "number"
  THEN \* truthy content without trim(): the call throws
       MessageHandlerCatch
  ELSE \* missing, empty or blank content
       UNCHANGED <<messages, sent, tasks, nextId>>

\* case 'ping': ws.send(JSON.stringify({ type: 'pong' })).
PongToAll(c, reg, ws) == Event("pong", Recipients(reg, ws), [count |-> 0], "server", NoRaw)
Pong(c, reg, ws) == Event("pong", {c}, [count |-> 0], "server", NoRaw)

\* A 'message' event of a transport carrying msg: JSON.parse and handleMessage.
ReceiveMsg(c, msg) ==
  /\ wsState[c] = "OPEN"
  /\ c \in listening
  /\ budget > 0
  /\ budget' = budget - 1
  /\ IF c \notin DOMAIN clients
     THEN UNCHANGED <<messages, sent, tasks, nextId>>
     ELSE IF msg.type = "message"
     THEN HandleChat(c, msg)
     ELSE IF msg.type = "ping"
     THEN /\ sent' = Append(sent, Pong(c, clients, wsState))
          /\ UNCHANGED <<messages, tasks, nextId>>
     ELSE MessageHandlerCatch
  /\ UNCHANGED <<storeReady, redisList, impl, snapshot, wsState, clients, listening, connPc,
                 rlVars, busVars, fnVars, hookVars>>

Receive(c) == \E msg \in InboundEvents : ReceiveMsg(c, msg)

\* Mutant of SaveLocallyAndBroadcast: saveMessage raises after its catch block has stored
\* the message, and the 'message' handler ends without the broadcast.
SaveLocallyAndRaise(t) ==
  /\ messages' = pushAndShift(messages, t.chat)
  /\ tasks' = tasks \ {t}
  /\ UNCHANGED <<redisList, sent>>

\* The catch block of saveMessage, and handleMessage's broadcast after it.
SaveLocallyAndBroadcast(t) ==
  /\ messages' = pushAndShift(messages, t.chat)
  /\ sent' = Append(sent, NewMessage(t, clients, wsState))
  /\ tasks' = tasks \ {t}
  /\ UNCHANGED redisList

\* await redisClient.lPush('chat:messages', JSON.stringify(message)) answers.
SaveLPush(t) ==
  /\ t.pc = "lPush"
  /\ storeReady
  /\ redisList' = lPush(redisList, stringify(t.chat))
  /\ tasks' = (tasks \ {t}) \cup {[t EXCEPT !.pc = "lTrim"]}
  /\ UNCHANGED <<storeReady, messages, impl, snapshot, wsState, clients, listening, connPc,
                 sent, nextId, budget, rlVars, busVars, fnVars, hookVars>>

\* await redisClient.lTrim('chat:messages', 0, 99) answers; saveMessage returns and
\* handleMessage broadcasts.
SaveLTrim(t) ==
  /\ t.pc = "lTrim"
  /\ storeReady
  /\ redisList' = lTrim(redisList, 0, TrimStop)
  /\ sent' = Append(sent, NewMessage(t, clients, wsState))
  /\ tasks' = tasks \ {t}
  /\ UNCHANGED <<storeReady, messages, impl, snapshot, wsState, clients, listening, connPc,
                 nextId, budget, rlVars, busVars, fnVars, hookVars>>

\* The pending store call of saveMessage throws.
SaveFails(t) ==
  /\ SaveLocallyAndBroadcast(t)
  /\ UNCHANGED <<storeReady, impl, snapshot, wsState, clients, listening, connPc,
                 nextId, budget, rlVars, busVars, fnVars, hookVars>>

\* The transport reports an error: the 'error' handler, if attached, deregisters.
TransportError(c) ==
  /\ wsState[c] = "OPEN"
  /\ wsState' = [wsState EXCEPT ![c] = "ERRORED"]
  /\ clients' = IF c \in listening THEN MapDel(clients, c) ELSE clients
  /\ UNCHANGED <<storeVars, listening, connPc, tasks, sent, nextId, budget, rlVars, busVars, fnVars, hookVars>>

\* The transport closes: the 'close' handler, if attached, deregisters and broadcasts.
TransportClose(c) ==
  /\ wsState[c] \in {"OPEN", "ERRORED"}
  /\ wsState' = [wsState EXCEPT ![c] = "CLOSED"]
  /\ IF c \in listening
     THEN /\ clients' = MapDel(clients, c)
          /\ sent' = Append(sent, UserCount(clients', wsState'))
     ELSE UNCHANGED <<clients, sent>>
  /\ UNCHANGED <<storeVars, listening, connPc, tasks, nextId, budget, rlVars, busVars, fnVars, hookVars>>

\* The relay's store client becomes ready or stops being ready.
StoreSetReady ==
  /\ storeReady' = ~storeReady
  /\ UNCHANGED <<redisList, messages, impl, snapshot, connVars, rlVars, busVars, fnVars, hookVars>>

NextRelay ==
  \/ \E c \in Conns : Connect(c)
  \/ \E c \in Conns : ConnLRange(c)
  \/ \E c \in Conns : ConnLRangeFails(c)
  \/ \E c \in Conns : Receive(c)
  \/ \E t \in tasks : SaveLPush(t)
  \/ \E t \in tasks : SaveLTrim(t)
  \/ \E t \in tasks : SaveFails(t)
  \/ \E c \in Conns : TransportError(c)
  \/ \E c \in Conns : TransportClose(c)
  \/ StoreSetReady

SpecRelay == RelayInit /\ [][NextRelay]_vars

SpecRelayFull == RelayFullInit /\ [][NextRelay]_vars

\* The store client keeps one connection and the store answers its calls in the order they
\* were made. A ChatMessage's id is the number of messages handled before its lPush was
\* made, joinedAt the number handled before the lRange of a connection was made; the
\* lTrim of a message is made when its lPush is answered.
LPushInOrder(t) ==
  /\ \A u \in tasks : u.pc = "lPush" => u.chat.id >= t.chat.id
  /\ \A c \in Conns : connPc[c] = "lRange" => clients[c].joinedAt >= t.chat.id

LTrimInOrder(t) == \A u \in tasks : u.pc = "lTrim" => u.chat.id >= t.chat.id

SaveInOrder(t) == IF t.pc = "lPush" THEN LPushInOrder(t) ELSE LTrimInOrder(t)

LRangeInOrder(c) ==
  /\ connPc[c] = "lRange"
  /\ \A u \in tasks : u.pc = "lPush" => u.chat.id > clients[c].joinedAt

\* The connection to the store is lost.
StoreDrops == storeReady /\ StoreSetReady

\* The connection to the store is back; the calls it was carrying have been rejected.
StoreRecovers ==
  /\ ~storeReady
  /\ tasks = {}
  /\ \A c \in Conns : connPc[c] # "lRange"
  /\ StoreSetReady

OrderedInit == RelayStart(0, MaxInbound)

NextOrdered ==
  \/ \E c \in Conns : Connect(c)
  \/ \E c \in Conns : LRangeInOrder(c) /\ ConnLRange(c)
  \/ \E c \in Conns : LRangeInOrder(c) /\ ConnLRangeFails(c)
  \/ \E c \in Conns : Receive(c)
  \/ \E t \in tasks : LPushInOrder(t) /\ SaveLPush(t)
  \/ \E t \in tasks : LTrimInOrder(t) /\ SaveLTrim(t)
  \/ \E t \in tasks : SaveInOrder(t) /\ SaveFails(t)
  \/ \E c \in Conns : TransportError(c)
  \/ \E c \in Conns : TransportClose(c)
  \/ StoreDrops
  \/ StoreRecovers

SpecRelayOrdered == OrderedInit /\ [][NextOrdered]_vars

\* One connection sending a burst of messages to a relay whose store client is not ready,
\* while the other connection comes and goes.
BurstMessage == [type |-> "message", content |-> Str(<<"h", "i">>), encrypted |-> FALSE]

BurstInit ==
  /\ RelayStart(0, MaxBurst)
  /\ storeReady = FALSE

NextBurst ==
  \/ \E c \in Conns : Connect(c)
  \/ ReceiveMsg("c1", BurstMessage)
  \/ \E c \in Conns : TransportError(c)
  \/ \E c \in Conns : TransportClose(c)

SpecRelayBurst == BurstInit /\ [][NextBurst]_vars

\* One connection sending contents at the limits of handleMessage to a relay whose store
\* client stays as it started, ready or not, and whose transports stay open.
MaxLong == 2

LimitContents ==
  { Str(<<"a">>),
    Str(<<" ", "a", " ">>),
    Str(<<" ", " ">>),
    Str(Fill(MaxContentLength, "a")),
    Str(Fill(MaxContentLength + 1, "a")),
    Str(<<" ">> \o Fill(MaxContentLength - 1, "a") \o <<"b", " ">>),
    Str(Fill(MaxContentLength + 1, " ") \o <<"a">>) }

LimitEvents == { [type |-> "message", content |-> x, encrypted |-> FALSE] : x \in LimitContents }

LongInit == RelayStart(0, MaxLong)

NextLong ==
  \/ \E c \in Conns : Connect(c)
  \/ \E c \in Conns : ConnLRange(c)
  \/ \E c \in Conns : ConnLRangeFails(c)
  \/ \E msg \in LimitEvents : ReceiveMsg("c1", msg)
  \/ \E t \in tasks : SaveLPush(t)
  \/ \E t \in tasks : SaveLTrim(t)
  \/ \E t \in tasks : SaveFails(t)

SpecRelayLong == LongInit /\ [][NextLong]_vars

\* ------------------------------------------------------------------ broadcast
\* broadcast(message): this.clients.forEach in insertion order; a transport that is not
\* open is skipped, and a send() that raises ends the forEach with the exception.
RECURSIVE broadcast(_, _, _)
broadcast(ord, ws, throws) ==
  IF ord = <<>> THEN [to |-> {}, raised |-> FALSE]
  ELSE IF ws[Head(ord)] # "OPEN" THEN broadcast(Tail(ord), ws, throws)
  ELSE IF Head(ord) \in throws THEN [to |-> {}, raised |-> TRUE]
  ELSE LET rest == broadcast(Tail(ord), ws, throws)
       IN [to |-> {Head(ord)} \cup rest.to, raised |-> rest.raised]

\* The orders in which the connections of S can have been registered.
Orders(S) ==
  {o \in [1..Cardinality(S) -> S] : \A i, j \in 1..Cardinality(S) : o[i] = o[j] => i = j}

\* A relay with any registry: each registered transport open or closed, its send()
\* raising or not.
BroadcastInit ==
  /\ LimiterQuiet
  /\ FnQuiet
  /\ HookQuiet
  /\ storeReady = FALSE
  /\ redisList = <<>>
  /\ messages = <<>>
  /\ impl = "server"
  /\ snapshot = [n |-> 0, count |-> 0, msgs |-> <<>>]
  /\ \E S \in SUBSET Conns :
       /\ clients \in [S -> {[id |-> id, color |-> color, joinedAt |-> 0] :
                          id \in AnonIds, color \in Colors}]
       /\ busOrder \in Orders(S)
       /\ busThrows \in SUBSET S
       /\ listening = S
       /\ wsState \in {w \in [Conns -> {"NONE", "OPEN", "CLOSED"}] :
                         \A c \in Conns : w[c] = "NONE" <=> c \notin S}
       /\ connPc = [c \in Conns |-> IF c \in S THEN "done" ELSE "none"]
  /\ tasks = {}
  /\ sent = <<>>
  /\ nextId = 0
  /\ budget = MaxBroadcasts

\* this.broadcast({ type: 'userCount', count: this.clients.size })
Broadcast ==
  /\ budget > 0
  /\ budget' = budget - 1
  /\ sent' = Append(sent, Event("userCount", broadcast(busOrder, wsState, busThrows).to,
                                [count |-> Cardinality(DOMAIN clients)], "server", NoRaw))
  /\ UNCHANGED <<storeVars, wsState, clients, listening, connPc, tasks, nextId, rlVars,
                 busVars, fnVars, hookVars>>

NextBroadcast == Broadcast

SpecBroadcast == BroadcastInit /\ [][NextBroadcast]_vars

\* ------------------------------------------------------------------ claims: the relay
\* RateLimit.checkMessageLimit(identifier): the record it keeps for a connection.
MessageLimitIdentifier(c) == "msg:" \o c

\* C1: every ChatMessage broadcast as a newMessage event was admitted by the rate limiter
\* under the message-send policy and accepted by the validator.
C1_BroadcastOnlyChecked ==
  \A i \in 1..Len(sent) :
    sent[i].type = "newMessage" =>
      /\ validateMessage(sent[i].raw).valid
      /\ \E k \in 1..Len(admits) : admits[k].id = MessageLimitIdentifier(sent[i].from)

\* C1, the validator's half alone.
C1_ValidatorOnly ==
  \A i \in 1..Len(sent) :
    sent[i].type = "newMessage" => validateMessage(sent[i].raw).valid

\* C9: the store never holds more than 100 entries and no snapshot has more than 100.
C9_StoreWithinCapacity ==
  /\ Len(redisList) <= MemoryCapacity
  /\ Len(messages) <= MemoryCapacity
  /\ \A i \in 1..Len(sent) :
       sent[i].type = "init" => Len(sent[i].data.messages) <= MemoryCapacity

\* C9, the snapshots alone.
C9_SnapshotsOnly ==
  \A i \in 1..Len(sent) :
    sent[i].type = "init" => Len(sent[i].data.messages) <= MemoryCapacity

\* saveMessage has appended the ChatMessage by the end of this step: its lPush was
\* answered before the step, or the step pushes it onto the local array.
Appended(chat) ==
  \/ \E t \in tasks : t.chat = chat /\ t.pc = "lTrim"
  \/ \E i \in 1..Len(messages') : messages'[i] = chat

\* C11: when a newMessage event is broadcast its ChatMessage has already been appended
\* to the Message Store, and the event goes to every registered connection whose
\* transport is open, the sender included.
C11_AppendThenBroadcastToAll ==
  [][\A i \in (Len(sent) + 1)..Len(sent') :
       sent'[i].type = "newMessage" =>
         /\ Appended(sent'[i].data.message)
         /\ sent'[i].to = {c \in DOMAIN clients' : wsState'[c] = "OPEN"}
         /\ (sent'[i].from \in DOMAIN clients' /\ wsState'[sent'[i].from] = "OPEN")
              => sent'[i].from \in sent'[i].to]_vars

\* A message saved through the shared list was broadcast to its sender and to another
\* connection.
C11_Witness ==
  \E i \in 1..Len(sent) :
    /\ sent[i].type = "newMessage"
    /\ sent[i].from \in sent[i].to
    /\ Cardinality(sent[i].to) = 2
    /\ \E k \in 1..Len(redisList) : parse(redisList[k]) = sent[i].data.message

MessagePolicyMaxRequests == 20
MessagePolicyWindowMs == 60000

\* RateLimit.checkMessageLimit(identifier) on the local backend.
checkMessageLimit(store, identifier, now) ==
  checkMemoryLimit(store, MessageLimitIdentifier(identifier), now,
                   MessagePolicyMaxRequests, MessagePolicyWindowMs)

\* The limiter's records after n message-send checks for connection c, all at `now`.
RECURSIVE LimiterAfter(_, _, _)
LimiterAfter(c, n, now) ==
  IF n = 0 THEN EmptyMap ELSE checkMessageLimit(LimiterAfter(c, n - 1, now), c, now).store

\* The number of newMessage events from connection c among the first i events.
SentBy(c, i) ==
  Cardinality({j \in 1..i : sent[j].type = "newMessage" /\ sent[j].from = c})

\* C12: a message that exceeds the message-send limit (20 per 60 s and connection) is
\* answered with an error event and is neither stored nor broadcast: every newMessage
\* event comes from a message the limiter admits.
C12_OverLimitNotBroadcast ==
  \A i \in 1..Len(sent) :
    sent[i].type = "newMessage" =>
      checkMessageLimit(LimiterAfter(sent[i].from, SentBy(sent[i].from, i) - 1, clock),
                        sent[i].from, clock).result.allowed

\* C13: an inbound message that fails validation is answered with an error event to its
\* sender, and is neither appended to the store nor broadcast.
C13_InvalidAnsweredNotRelayed ==
  [][\A c \in Conns, msg \in InboundEvents :
       (/\ msg.type = "message"
        /\ ~validateMessage(msg).valid
        /\ c \in DOMAIN clients
        /\ ReceiveMsg(c, msg))
         => /\ Len(sent') = Len(sent) + 1
            /\ sent'[Len(sent')].type = "error"
            /\ sent'[Len(sent')].to = {c}
            /\ tasks' = tasks
            /\ messages' = messages
            /\ redisList' = redisList]_vars

\* C13, the silent drop alone: no invalid message is handled without any event being sent.
C13_NoSilentDrop ==
  [][\A c \in Conns, msg \in InboundEvents :
       (/\ msg.type = "message"
        /\ ~validateMessage(msg).valid
        /\ c \in DOMAIN clients
        /\ ReceiveMsg(c, msg))
         => (sent' # sent \/ tasks' # tasks)]_vars

\* C13, the relaying alone: no invalid message is stored or suspended in saveMessage.
C13_InvalidNotStored ==
  [][\A c \in Conns, msg \in InboundEvents :
       (/\ msg.type = "message"
        /\ ~validateMessage(msg).valid
        /\ c \in DOMAIN clients
        /\ ReceiveMsg(c, msg))
         => (tasks' = tasks /\ messages' = messages)]_vars

Ping == [type |-> "ping", content |-> Undefined, encrypted |-> FALSE]

\* C14: a ping from a registered connection sends exactly one pong, to that connection
\* only; the store, the rate-limit records and the registry membership are unchanged and
\* no message handling is started.
C14_PingAnsweredByPongOnly ==
  [][\A c \in Conns :
       (c \in DOMAIN clients /\ ReceiveMsg(c, Ping))
         => /\ Len(sent') = Len(sent) + 1
            /\ SubSeq(sent', 1, Len(sent)) = sent
            /\ sent'[Len(sent')].type = "pong"
            /\ sent'[Len(sent')].to = {c}
            /\ redisList' = redisList
            /\ messages' = messages
            /\ tasks' = tasks
            /\ inMemoryStore' = inMemoryStore
            /\ rlKey' = rlKey
            /\ DOMAIN clients' = DOMAIN clients]_vars

\* A ping was answered while two connections were registered and open.
C14_Witness ==
  /\ sent # <<>>
  /\ sent[Len(sent)].type = "pong"
  /\ \A c \in Conns : c \in DOMAIN clients /\ wsState[c] = "OPEN"

\* The number of init events sent to connection c among the events of `events`.
InitsTo(c, events) ==
  Cardinality({i \in 1..Len(events) : events[i].type = "init" /\ events[i].to = {c}})

Drops(c) == wsState[c] = "OPEN" /\ wsState'[c] # "OPEN"

\* The last event sent in this step is a userCount event carrying the new registry size,
\* for every remaining registered connection whose transport is open.
NewCountBroadcast ==
  /\ Len(sent') = Len(sent) + 1
  /\ sent'[Len(sent')].type = "userCount"
  /\ sent'[Len(sent')].data.count = Cardinality(DOMAIN clients')
  /\ sent'[Len(sent')].to = {d \in DOMAIN clients' : wsState'[d] = "OPEN"}

\* C16: when the transport of a registered connection closes or errors, the connection
\* leaves the registry, the registry size drops by exactly one, and a userCount event
\* with the new size goes to every remaining open connection.
C16_DropDeregistersAndAnnounces ==
  [][\A c \in Conns :
       (c \in DOMAIN clients /\ Drops(c))
         => /\ c \notin DOMAIN clients'
            /\ Cardinality(DOMAIN clients') = Cardinality(DOMAIN clients) - 1
            /\ NewCountBroadcast]_vars

\* C16, the close path of a connection whose handlers are attached.
C16_ClosePathAttached ==
  [][\A c \in Conns :
       (c \in DOMAIN clients /\ c \in listening /\ wsState'[c] = "CLOSED" /\ Drops(c))
         => /\ c \notin DOMAIN clients'
            /\ Cardinality(DOMAIN clients') = Cardinality(DOMAIN clients) - 1
            /\ NewCountBroadcast]_vars

\* C16, the error path of a connection whose handlers are attached: the announcement.
C16_ErrorPathAnnounces ==
  [][\A c \in Conns :
       (c \in DOMAIN clients /\ c \in listening /\ wsState'[c] = "ERRORED" /\ Drops(c))
         => NewCountBroadcast]_vars

\* C16, the removal alone, whatever the path.
C16_DropDeregisters ==
  [][\A c \in Conns :
       (c \in DOMAIN clients /\ Drops(c)) => c \notin DOMAIN clients']_vars

\* C17: once a connection is deregistered, no message from it is appended to the store or
\* broadcast, a message suspended in a store call included.
C17_NothingAfterDeregistration ==
  [][/\ \A i \in (Len(sent) + 1)..Len(sent') :
          sent'[i].type = "newMessage" => sent'[i].from \in DOMAIN clients'
     /\ \A t \in tasks :
          (redisList' # redisList \/ messages' # messages) /\ t \notin tasks'
            => t.conn \in DOMAIN clients]_vars

\* C17, the broadcast alone.
C17_NoBroadcastAfterDeregistration ==
  [][\A i \in (Len(sent) + 1)..Len(sent') :
       sent'[i].type = "newMessage" => sent'[i].from \in DOMAIN clients']_vars

\* No handler is suspended in a store call.
Quiescent == tasks = {} /\ \A c \in Conns : connPc[c] # "lRange"

\* C18: in every quiescent state the registry size is the number of connections whose
\* transport is open.
C18_RegistryMatchesOpenTransports ==
  Quiescent =>
    Cardinality(DOMAIN clients) = Cardinality({c \in Conns : wsState[c] = "OPEN"})

\* C20: deregistering a connection that is already absent (a close event after an error
\* event of the same transport) leaves the registry and its size unchanged.
C20_DeregisterIdempotent ==
  [][\A c \in Conns :
       (/\ c \in listening
        /\ c \notin DOMAIN clients
        /\ wsState[c] = "ERRORED"
        /\ wsState'[c] = "CLOSED")
         => /\ clients' = clients
            /\ Cardinality(DOMAIN clients') = Cardinality(DOMAIN clients)]_vars

\* The error handler has deregistered a connection whose close event is still to come,
\* and another connection is registered.
C20_Witness ==
  \E c \in Conns :
    /\ c \in listening
    /\ c \notin DOMAIN clients
    /\ wsState[c] = "ERRORED"
    /\ DOMAIN clients # {}

\* C19: a delivery that fails for one recipient does not end the broadcast: every other
\* registered connection whose transport is open is sent the event.
C19_FailureIsolated ==
  [][\A i \in (Len(sent) + 1)..Len(sent') :
       \A c \in DOMAIN clients :
         (wsState[c] = "OPEN" /\ c \notin busThrows) => c \in sent'[i].to]_vars

\* C19, closed recipients alone: with no send() raising, every registered connection
\* whose transport is open is sent the event, whichever other transports are closed.
C19_ClosedRecipientsSkipped ==
  [][busThrows = {} =>
       \A i \in (Len(sent) + 1)..Len(sent') :
         sent'[i].to = {c \in DOMAIN clients : wsState[c] = "OPEN"}]_vars

\* C21: the handling of an inbound event of a connection begins only when the handling
\* of that connection's earlier events, suspended store calls included, is complete.
C21_OneEventAtATimePerConnection ==
  [][\A c \in Conns, msg \in InboundEvents :
       ReceiveMsg(c, msg) => \A t \in tasks : t.conn # c]_vars

\* C21, as a state: no connection has two message handlings suspended at once.
C21_OneSuspendedHandlingPerConnection ==
  \A c \in Conns : Cardinality({t \in tasks : t.conn = c}) <= 1

\* The malformed payloads: one JSON.parse throws on, and a message whose handling throws.
Malformed ==
  {Unparseable, [type |-> "message", content |-> Number42, encrypted |-> FALSE]}

\* C26: a malformed payload leaves the connection registered and open with its handlers
\* attached, appends nothing to the store and sends nothing.
C26_MalformedPayloadIgnored ==
  [][\A c \in Conns, msg \in Malformed :
       (c \in DOMAIN clients /\ ReceiveMsg(c, msg))
         => /\ clients' = clients
            /\ wsState' = wsState
            /\ listening' = listening
            /\ redisList' = redisList
            /\ messages' = messages
            /\ tasks' = tasks
            /\ sent' = sent]_vars

\* Two inbound events were handled, a malformed payload that left everything as it was
\* and a well-formed message that was broadcast; nothing is suspended.
C26_Witness ==
  /\ budget = 0
  /\ tasks = {}
  /\ nextId = 1
  /\ Cardinality({i \in 1..Len(sent) : sent[i].type = "newMessage"}) = 1
  /\ Cardinality({i \in 1..Len(sent) : sent[i].type = "pong"}) = 0
  /\ sent[Len(sent)].type = "newMessage"

\* ------------------------------------------------------------------ claims: the validator
Validated == fnOutput # <<>> /\ fnOutput[1] = "validateMessage"
Sanitized == fnOutput # <<>> /\ fnOutput[1] = "sanitizeInput"

\* A message with a declared string type and a string content.
Declared == fnInput.type # "" /\ fnInput.content.kind = "string"

LengthError == "Message content length invalid"

\* C22, as stated: validateMessage, given a message with a declared string type, rejects
\* content of length 0 and of length 1001, accepts every content of length 1 and of length
\* 1000, and rejects content that sanitizes to empty with an error that is not the length
\* error.
C22_BoundaryLengthsAccepted ==
  (Validated /\ Declared) =>
    LET content == fnInput.content.chars
        result == fnOutput[2]
    IN /\ Len(content) \in {0, 1001} => ~result.valid
       /\ Len(content) \in {1, 1000} => result.valid
       /\ (Len(content) \in 1..1000 /\ sanitizeInput(fnInput.content) = <<>>)
            => ~result.valid /\ result.error # LengthError

\* C22, amended: validateMessage, given a message with a declared string type, rejects
\* content of length 0 ('Message content is required') and of length 1001 ('Message content
\* length invalid'), accepts every content of length 1 and of length 1000 that does not
\* sanitize to empty, answering its sanitized content, and rejects content of length 1 to
\* 1000 that sanitizes to empty with 'Message content is empty after sanitization'.
C22_BoundaryLengths ==
  (Validated /\ Declared) =>
    LET content == fnInput.content.chars
        result == fnOutput[2]
    IN /\ Len(content) = 0 => ~result.valid /\ result.error = "Message content is required"
       /\ Len(content) = 1001 => ~result.valid /\ result.error = LengthError
       /\ (Len(content) \in {1, 1000} /\ sanitizeInput(fnInput.content) # <<>>)
            => result.valid /\ result.sanitized = sanitizeInput(fnInput.content)
       /\ (Len(content) \in 1..1000 /\ sanitizeInput(fnInput.content) = <<>>)
            => /\ ~result.valid
               /\ result.error = "Message content is empty after sanitization"
               /\ result.error # LengthError

\* A content of 1000 characters has been accepted.
C22_Witness ==
  /\ Validated /\ Declared
  /\ Len(fnInput.content.chars) = 1000
  /\ fnOutput[2].valid
  /\ Len(fnOutput[2].sanitized) = 1000

\* A tag, a javascript: URI or an inline event handler starts somewhere in str.
HasPattern(str) ==
  \E k \in 1..Len(str) :
    tagMatch(str, k) > 0 \/ jsMatch(str, k) > 0 \/ handlerMatch(str, k) > 0

IsTrimmed(str) == str = <<>> \/ (~IsSpace(str[1]) /\ ~IsSpace(str[Len(str)]))

\* C23: for every input, the sanitized content has no leading or trailing whitespace, has
\* at most 1000 characters, and contains no remaining tag, javascript: or event-handler
\* pattern.
C23_SanitizedIsCleanAndTrimmed ==
  Sanitized =>
    /\ IsTrimmed(fnOutput[2])
    /\ Len(fnOutput[2]) <= 1000
    /\ ~HasPattern(fnOutput[2])

\* C23, its parts: no leading or trailing whitespace is left;
C23_SanitizedIsTrimmed == Sanitized => IsTrimmed(fnOutput[2])

\* C23: no tag, javascript: or event-handler pattern is left;
C23_SanitizedHasNoPattern == Sanitized => ~HasPattern(fnOutput[2])

\* C23: at most 1000 characters are left.
C23_SanitizedWithinLimit == Sanitized => Len(fnOutput[2]) <= 1000

\* ------------------------------------------------------------------ claims: ChatMessages
\* The ChatMessages the Message Store holds, in the shared list or the local array.
Stored ==
  {messages[i] : i \in 1..Len(messages)} \cup {parse(redisList[i]) : i \in 1..Len(redisList)}

\* The ChatMessages sent to connections, in newMessage and in init events.
Broadcasted ==
  {sent[i].data.message : i \in {k \in 1..Len(sent) : sent[k].type = "newMessage"}}
    \cup UNION {{sent[i].data.messages[j] : j \in 1..Len(sent[i].data.messages)} :
                 i \in {k \in 1..Len(sent) : sent[k].type = "init"}}

ContentWithinLimits == \A m \in Stored \cup Broadcasted : Len(m.content) \in 1..1000

\* A ChatMessage that stays in the Message Store stays as it was appended.
StoredUnmodified == \A m \in Stored : \A n \in Stored' : n.id = m.id => n = m

\* C24: every ChatMessage held in the Message Store or broadcast has a content of 1 to
\* 1000 characters, and no step modifies a ChatMessage the Message Store holds.
C24_ContentBoundedAndUnmodified == []ContentWithinLimits /\ [][StoredUnmodified]_vars

\* A content of more than 1000 characters was broadcast cut to 1000, and the Message Store
\* holds two ChatMessages.
C24_Witness ==
  /\ Cardinality(Stored) = 2
  /\ \E i \in 1..Len(sent) :
       /\ sent[i].type = "newMessage"
       /\ Len(sent[i].raw.content.chars) > 1000
       /\ Len(sent[i].data.message.content) = 1000
       /\ sent[i].data.message \in Stored

\* ------------------------------------------------------------------ claims: store calls
\* The steps the relay takes without an answer of the shared store: transport events and
\* what their handlers run up to the next store call.
StepWithoutStore ==
  \/ \E c \in Conns : Connect(c)
  \/ \E c \in Conns : Receive(c)
  \/ \E c \in Conns : TransportError(c)
  \/ \E c \in Conns : TransportClose(c)

\* C25: no store operation blocks indefinitely: a handling suspended in a shared-store call
\* does not depend on the store's answer to finish, the relay itself has a step (the
\* timeout with its fallback to the local backend) that completes it.
C25_SuspendedHandlingCanTimeOut ==
  \A t \in tasks : ENABLED (StepWithoutStore /\ t \notin tasks')
\* The init event of connection c carrying the ChatMessages msgs is among the events the
\* step sends.
InitSent(c, msgs) ==
  \E i \in (Len(sent) + 1)..Len(sent') :
    sent'[i].type = "init" /\ sent'[i].to = {c} /\ sent'[i].data.messages = msgs

\* The step stores the ChatMessage m in the local array and broadcasts it, last.
StoredLocallyAndBroadcast(m) ==
  /\ messages' # <<>> /\ messages'[Len(messages')] = m
  /\ Len(sent') = Len(sent) + 1
  /\ sent'[Len(sent')].type = "newMessage"
  /\ sent'[Len(sent')].data.message = m
  /\ sent'[Len(sent')].to = Recipients(clients, wsState)

\* C27: with the shared store unavailable, or a shared-store call failing, an accepted
\* message is appended to the in-process store and broadcast, a snapshot is read from the
\* in-process store, and no error event is sent.
C27_TransparentFallback ==
  [][/\ \A t \in tasks : SaveFails(t) => StoredLocallyAndBroadcast(t.chat)
     /\ \A c \in Conns, msg \in InboundEvents :
          (~storeReady /\ ReceiveMsg(c, msg) /\ nextId' # nextId)
            => \E m \in Stored' : m.id = nextId' /\ StoredLocallyAndBroadcast(m)
     /\ \A c \in Conns :
          (wsState[c] = "OPEN" /\ ConnLRangeFails(c)) => InitSent(c, messages)
     /\ \A c \in Conns : (~storeReady /\ Connect(c)) => InitSent(c, messages)
     /\ \A i \in 1..Len(sent') : sent'[i].type # "error"]_vars

\* An accepted message went to the in-process store and not to the shared list, was
\* broadcast, and a connection got it in a later init event read from the in-process store.
C27_Witness ==
  /\ redisList = <<>> /\ Len(messages) = 1 /\ tasks = {} /\ storeReady
  /\ \E i, j \in 1..Len(sent) :
       /\ i < j
       /\ sent[i].type = "newMessage" /\ sent[i].data.message = messages[1]
       /\ sent[j].type = "init" /\ sent[j].data.messages = messages

\* ------------------------------------------------------------------ claims: reset, sweep
\* C28: after reset(identifier) returns, no rate-limit record matching the identifier
\* remains in either backend, the in-memory map and, ready or not, the shared store.
C28_ResetClearsBothBackends ==
  [][\A identifier \in Identifiers :
       Reset(identifier)
         => /\ identifier \notin DOMAIN inMemoryStore'
            /\ rlKey'[identifier] = EmptyKey]_vars

\* C28, the local half, which holds: no local record of the identifier is left.
C28_ResetClearsLocalBackend ==
  [][\A identifier \in Identifiers :
       Reset(identifier) => identifier \notin DOMAIN inMemoryStore']_vars
\* The identifier has an admission of the last five minutes on record.
RecentlyAdmitted(store, identifier, now) ==
  \E i \in 1..Len(store[identifier]) : store[identifier][i] > now - SweepAgeMs

\* No check of the identifier will follow, and its last admission gets older than five
\* minutes within the time the model covers.
NoLongerChecked(identifier) ==
  /\ identifier \in DOMAIN inMemoryStore
  /\ calls = MaxCalls
  /\ \A i \in 1..Len(inMemoryStore[identifier]) :
       inMemoryStore[identifier][i] + SweepAgeMs <= MaxSweepTicks * SweepTickMs

\* C29: after each run of the sweep the in-memory map holds no identifier whose most
\* recent admission is older than five minutes, and an identifier that is no longer
\* checked is eventually removed from the map, also one whose checks were all rejected.
C29_SweepPurgesStaleIdentifiers ==
  /\ [][Sweep => \A identifier \in DOMAIN inMemoryStore' :
                    RecentlyAdmitted(inMemoryStore', identifier, clock)]_vars
  /\ \A identifier \in Identifiers :
       NoLongerChecked(identifier) ~> identifier \notin DOMAIN inMemoryStore

\* Every check of the identifier was rejected, and the sweep has removed it.
C29_Witness ==
  /\ calls = MaxCalls
  /\ admits = <<>>
  /\ inMemoryStore = EmptyMap

\* ------------------------------------------------------------------ claims: adaptive limit
AdaptiveChecked == fnOutput # <<>> /\ fnOutput[1] = "checkAdaptiveLimit"

\* The effective maxRequests the claim states, for a load in hundredths.
SteppedMax(base, load) ==
  IF load <= 40 THEN base
  ELSE IF load <= 60 THEN (8 * base) \div 10
  ELSE IF load <= 80 THEN (6 * base) \div 10
  ELSE (3 * base) \div 10

\* The effective maxRequests of the call, read off its decision for a fresh identifier.
EffectiveMax == IF fnOutput[2].allowed THEN fnOutput[2].remaining + 1 ELSE 0

\* C30: the effective maxRequests is non-increasing in serverLoad with steps exactly at
\* 0.4, 0.6 and 0.8 (base, floor(0.8*base), floor(0.6*base), floor(0.3*base)), and for
\* every base >= 1 it stays >= 1, so that a fresh identifier is admitted.
C30_AdaptiveLimitStepsAndAdmits ==
  (AdaptiveChecked /\ fnInput.maxRequests >= 1) =>
    /\ EffectiveMax = SteppedMax(fnInput.maxRequests, fnInput.serverLoad)
    /\ \A lower \in Loads :
         lower <= fnInput.serverLoad
           => SteppedMax(fnInput.maxRequests, lower) >= EffectiveMax
    /\ EffectiveMax >= 1
    /\ fnOutput[2].allowed /\ fnOutput[2].totalHits = 1

\* C30, the part that holds: the steps and their thresholds.
C30_StepsAtThresholds ==
  (AdaptiveChecked /\ fnInput.maxRequests >= 1) =>
    /\ EffectiveMax = SteppedMax(fnInput.maxRequests, fnInput.serverLoad)
    /\ \A lower \in Loads :
         lower <= fnInput.serverLoad
           => SteppedMax(fnInput.maxRequests, lower) >= EffectiveMax

\* C30, the part that fails: a fresh identifier is admitted for every base >= 1.
C30_FreshIdentifierAdmitted ==
  (AdaptiveChecked /\ fnInput.maxRequests >= 1) => fnOutput[2].allowed

\* C35: whenever a check returns allowed = false, resetTime is a valid timestamp strictly
\* later than the time of the check, on both backends and for every maxRequests >= 0,
\* also for a key without expiry or one that expired between the count and the ttl read.
C35_RejectionResetsLater ==
  last.backend # "none" /\ ~last.result.allowed => last.result.resetTime > last.now

\* The times of the model at or after the present.
LaterTimes == {clock + k * SweepTickMs : k \in 0..MaxSweepTicks}

\* What an admission check at time t would answer on this store.
Admission(store, identifier, t) ==
  LET r == checkMemoryLimit(store, identifier, t, maxRequests, windowMs).result
  IN <<r.allowed, r.totalHits>>

\* C36: the sweep of the cleanup timer never changes the allowed or totalHits of a later
\* admission check, also for windows longer than five minutes.
C36_SweepIsInvisible ==
  [][Sweep => \A identifier \in Identifiers, t \in LaterTimes :
                Admission(inMemoryStore', identifier, t) =
                  Admission(inMemoryStore, identifier, t)]_vars

\* The records of a key are the same before and after the step.
RecordsKept(key) ==
  /\ key \in DOMAIN inMemoryStore <=> key \in DOMAIN inMemoryStore'
  /\ key \in DOMAIN inMemoryStore => inMemoryStore'[key] = inMemoryStore[key]
  /\ rlKey'[key] = rlKey[key]

\* C37: reset(a) leaves the records of every other identifier b unchanged, also when a
\* is a part of b or of a namespace prefix.
C37_ResetLeavesOthers ==
  [][\A a \in FrameIdentifiers :
       Reset(a) => \A key \in FrameKeys : Owner(key) # a => RecordsKept(key)]_vars

\* ---------------------------------------------------------------------------
\* claims: the client hook
\* ---------------------------------------------------------------------------

\* The delay the claim gives to attempt k, in milliseconds.
BackoffMs == <<1000, 2000, 4000, 8000, 16000, 30000, 30000>>

\* A socket of the hook gets its close event with a code other than 1000.
AbnormalCloseOf(s) ==
  \/ TransportLost(s)
  \/ CloseEvent(s) /\ hook.socks[s].code # NormalClosure

\* Every pending reconnect is one of the attempts 0..4 and waits min(1000 * 2^k, 30000) ms.
C31_Schedule ==
  /\ hook.reconnectAttempts \in 0..maxReconnectAttempts
  /\ \A t \in hook.timers :
       /\ t.attempt \in 0..(maxReconnectAttempts - 1)
       /\ t.delay = BackoffMs[t.attempt + 1]

\* An abnormal close below the cap schedules attempt k = the counter and counts it; at the
\* cap it schedules nothing; only an open lowers the counter, and it sets it to 0.
C31_Steps ==
  [][/\ \A s \in Sockets :
          AbnormalCloseOf(s) =>
            IF hook.reconnectAttempts < maxReconnectAttempts
            THEN /\ hook'.reconnectAttempts = hook.reconnectAttempts + 1
                 /\ hook'.timers = hook.timers \cup
                      {[id |-> s, attempt |-> hook.reconnectAttempts,
                        delay |-> BackoffMs[hook.reconnectAttempts + 1]]}
            ELSE /\ hook'.reconnectAttempts = hook.reconnectAttempts
                 /\ hook'.timers = hook.timers
     /\ \A s \in Sockets : Open(s) => hook'.reconnectAttempts = 0
     /\ hook'.reconnectAttempts < hook.reconnectAttempts => \E s \in Sockets : Open(s)
     /\ ~(hook'.timers \subseteq hook.timers) => \E s \in Sockets : AbnormalCloseOf(s)]_vars

\* C31: after an abnormal close (code other than 1000) the hook schedules reconnect
\* attempt k after min(1000 * 2^k, 30000) ms, makes at most 5 attempts without an
\* intervening open, and resets the counter to 0 on every open.
C31_ReconnectBackoff == []C31_Schedule /\ C31_Steps

\* The fifth attempt has failed too: the counter is at the cap and nothing is scheduled.
C31_Witness ==
  /\ hook.reconnectAttempts = maxReconnectAttempts
  /\ hook.timers = {}
  /\ \A s \in Sockets : hook.socks[s].readyState = "CLOSED"

\* The sockets of the hook that are connecting or open.
LiveSockets == {s \in Sockets : hook.socks[s].readyState \in {"CONNECTING", "OPEN"}}

\* Socket s gets its close event.
ClosedBy(s) == TransportLost(s) \/ CloseEvent(s)

\* At most one socket is live and at most one ping interval runs.
C38_OneSocketOnePing ==
  /\ Cardinality(LiveSockets) <= 1
  /\ Cardinality(hook.pings) <= 1

\* The close event of a socket the ref no longer holds leaves the ref and the interval of
\* its replacement alone.
C38_SupersededCloseIsInert ==
  [][\A s \in Sockets :
       ClosedBy(s) /\ hook.wsRef # s /\ hook.wsRef # 0 =>
         /\ hook'.wsRef = hook.wsRef
         /\ hook'.pings = hook.pings
         /\ hook'.pingIntervalRef = hook.pingIntervalRef]_vars

\* C38: the hook has at most one live socket and one ping timer, and the close event of
\* a superseded socket never clears the reference to, or the ping timer of, its
\* replacement.
C38_SingleSocketAndPing == []C38_OneSocketOnePing /\ C38_SupersededCloseIsInert

\* The step closes a socket that was connecting or open by calling close() on it.
ClosesLiveSocket ==
  \E s \in Sockets :
    /\ hook.socks[s].readyState \in {"CONNECTING", "OPEN"}
    /\ hook'.socks[s].readyState = "CLOSING"

\* The re-run of the effect leaves the socket of the hook alone.
C39_RerunKeepsSocket == [][Render => ~ClosesLiveSocket]_vars

\* isConnected turns false only when the transport of the open socket is lost or the
\* application calls disconnect.
C39_StaysConnected ==
  [][hook.isConnected /\ ~hook'.isConnected =>
       \/ UserDisconnect
       \/ \E s \in Sockets : TransportLost(s) /\ hook.socks[s].readyState = "OPEN"]_vars

\* C39: once connected the hook stays connected until the transport is lost or
\* disconnect is called, and the effect re-running because connect's identity changes
\* with isConnecting does not close the socket the hook has just opened.
C39_ConnectsAndStays == C39_RerunKeepsSocket /\ C39_StaysConnected

\* The number of sockets the hook has created.
Created(h) == NextSocket(h) - 1

\* disconnect() leaves no reconnect timer pending.
C40_TimersCancelled == [][UserDisconnect => hook'.timers = {}]_vars

\* Between disconnect() and the next connect() of the application the close events
\* schedule nothing and no socket is created.
C40_NoAttemptWhileManual ==
  [][hook.manual /\ hook'.manual =>
       /\ hook'.timers \subseteq hook.timers
       /\ Created(hook') = Created(hook)]_vars

\* C40: after a manual disconnect the hook makes no further connection attempt on its
\* own: the pending reconnect timer is cancelled and the resulting close event schedules
\* no reconnect.
C40_ManualDisconnectIsFinal == C40_TimersCancelled /\ C40_NoAttemptWhileManual

\* ---------------------------------------------------------------------------
\* claims: the relay and its clients
\* ---------------------------------------------------------------------------

\* Mutant of handleWebSocketMessage: init adds the snapshot to the list.
handleWebSocketMessageInitAppends(prev, data) ==
  IF data.type = "init" THEN prev \o data.data.messages
  ELSE IF data.type = "newMessage" THEN Append(prev, data.data.message)
  ELSE prev

\* handleWebSocketMessage of the client: init replaces the list, newMessage appends.
handleWebSocketMessage(prev, data) ==
  IF data.type = "init" THEN data.data.messages
  ELSE IF data.type = "newMessage" THEN Append(prev, data.data.message)
  ELSE prev

\* The list of the client on connection c after the first n events the relay sent.
RECURSIVE ClientMessages(_, _)
ClientMessages(c, n) ==
  IF n = 0 THEN <<>>
  ELSE IF c \in sent[n].to
       THEN handleWebSocketMessage(ClientMessages(c, n - 1), sent[n])
       ELSE ClientMessages(c, n - 1)

\* How many times the ChatMessage with this id is in a list.
Copies(list, id) == Cardinality({i \in 1..Len(list) : list[i].id = id})

\* Connection c is registered and open, got its init, and no handleMessage is suspended.
Settled(c) ==
  /\ c \in DOMAIN clients
  /\ wsState[c] = "OPEN"
  /\ connPc[c] = "done"
  /\ tasks = {}

BroadcastIds ==
  LET news == SelectSeq(sent, LAMBDA e : e.type = "newMessage")
  IN [i \in 1..Len(news) |-> news[i].data.message.id]

\* The ids of a store's ChatMessages, oldest append first.
StoreIds(list) == [i \in 1..Len(list) |-> list[i].id]

Before(ids, a, b) == \E i, j \in 1..Len(ids) : i < j /\ ids[i] = a /\ ids[j] = b

\* Two broadcast messages a store holds were broadcast in the order it holds them.
SameOrder(ids) ==
  \A i, j \in 1..Len(BroadcastIds) :
    Before(ids, BroadcastIds[i], BroadcastIds[j]) => i < j

\* C33: the order of the newMessage broadcasts is the order of the appends to the
\* Message Store, also when several handleMessage executions are suspended at once.
C33_BroadcastOrderIsAppendOrder ==
  /\ SameOrder(StoreIds(parseAndReverse(lRange(redisList, 0, -1))))
  /\ SameOrder(StoreIds(messages))

\* Two messages of different connections are in the store and both have been broadcast.
C33_Witness ==
  /\ Len(redisList) = 2
  /\ Len(BroadcastIds) = 2
  /\ \E i, j \in 1..Len(sent) :
       /\ sent[i].type = "newMessage" /\ sent[j].type = "newMessage"
       /\ sent[i].from # sent[j].from
  /\ SameOrder(StoreIds(parseAndReverse(lRange(redisList, 0, -1))))

\* The snapshot of an init event holds the ChatMessage with this id.
InSnapshot(e, id) == \E k \in 1..Len(e.data.messages) : e.data.messages[k].id = id

\* Fewer than 100 messages were handled after the one with this id.
StillRecent(id) == nextId - id < MemoryCapacity

\* C34: every message that was accepted and broadcast is in every later getMessages
\* snapshot until at least 100 newer messages were accepted, whatever the readiness and
\* the failures of the store.
C34_BroadcastMessagesStayInSnapshots ==
  \A i, j \in 1..Len(sent) :
    /\ i < j
    /\ sent[i].type = "newMessage"
    /\ sent[j].type = "init"
    /\ StillRecent(sent[i].data.message.id)
    => InSnapshot(sent[j], sent[i].data.message.id)

====
